---- MODULE Spec2Model ----
(***************************************************************************)
(* A model of dkooll/wamcp: the sync controller and its job registry       *)
(* (pkg/mcp/server.go, internal/indexer/sync.go), the store                *)
(* (internal/database/db.go) and the query engine (pkg/mcp/server.go).     *)
(*                                                                         *)
(* Strings are sequences of one-character strings, so that prefix tests,   *)
(* LIKE patterns, splitting and slicing are computed, not assumed.  Byte   *)
(* offsets are 0-based and half-open, as in Go; Slice converts.            *)
(***************************************************************************)
EXTENDS Integers, Sequences, FiniteSets, Bags, TLC

(***************************************************************************)
(* Strings (package strings of the Go standard library)                    *)
(***************************************************************************)

Slice(s, from, to) == SubSeq(s, from + 1, to)

HasPrefix(s, p) == Len(p) <= Len(s) /\ SubSeq(s, 1, Len(p)) = p

HasSuffix(s, p) == Len(p) <= Len(s) /\ SubSeq(s, Len(s) - Len(p) + 1, Len(s)) = p

TrimPrefix(s, p) == IF HasPrefix(s, p) THEN SubSeq(s, Len(p) + 1, Len(s)) ELSE s

\* the least element of a set of integers, or dflt when the set is empty
MinOr(S, dflt) == IF S = {} THEN dflt ELSE CHOOSE i \in S : \A j \in S : i <= j

\* strings.Index: the 0-based offset of the first occurrence of p in s, or -1
Index(s, p) == MinOr({i \in 0..(Len(s) - Len(p)) : SubSeq(s, i + 1, i + Len(p)) = p}, -1)

Contains(s, p) == Index(s, p) >= 0

CutAt(s, sep, i) ==
    IF i < 0 THEN <<s, <<>>, FALSE>>
    ELSE <<SubSeq(s, 1, i), SubSeq(s, i + Len(sep) + 1, Len(s)), TRUE>>

\* strings.Cut(s, sep): <<before, after, found>>
Cut(s, sep) == CutAt(s, sep, Index(s, sep))

RECURSIVE Split(_, _)
SplitCut(c, s, sep) == IF c[3] THEN <<c[1]>> \o Split(c[2], sep) ELSE <<s>>

\* strings.Split for a non-empty separator
Split(s, sep) == SplitCut(Cut(s, sep), s, sep)

RECURSIVE Join(_, _)
Join(parts, sep) ==
    IF parts = <<>> THEN <<>>
    ELSE IF Len(parts) = 1 THEN parts[1]
    ELSE parts[1] \o sep \o Join(Tail(parts), sep)

ReplaceAll(s, old, new) == Join(Split(s, old), new)

\* the lower case of the upper-case letters the model uses
LowerChar(c) ==
    CASE c = "A" -> "a" [] c = "B" -> "b" [] c = "K" -> "k"
      [] c = "S" -> "s" [] c = "T" -> "t" [] c = "V" -> "v" [] c = "X" -> "x"
      [] OTHER -> c

ToLower(s) == [i \in 1..Len(s) |-> LowerChar(s[i])]

IsSpace(c) == c \in {" ", "\n", "\t"}

\* the least position >= i of s that satisfies Stop, or Len(s) + 1
FirstFrom(s, i, Stop(_)) == MinOr({j \in i..Len(s) : Stop(s[j])}, Len(s) + 1)

RECURSIVE TrimLeft(_)
TrimLeft(s) == IF s # <<>> /\ IsSpace(s[1]) THEN TrimLeft(Tail(s)) ELSE s

RECURSIVE TrimRight(_)
TrimRight(s) ==
    IF s # <<>> /\ IsSpace(s[Len(s)]) THEN TrimRight(SubSeq(s, 1, Len(s) - 1)) ELSE s

TrimSpace(s) == TrimRight(TrimLeft(s))

RECURSIVE Fields(_)
FieldsCut(t, e) == <<SubSeq(t, 1, e - 1)>> \o Fields(SubSeq(t, e, Len(t)))

FieldsOf(t) == IF t = <<>> THEN <<>> ELSE FieldsCut(t, FirstFrom(t, 1, IsSpace))

\* strings.Fields: the maximal runs of non-space characters
Fields(s) == FieldsOf(TrimLeft(s))

\* the position of c in seq, or 0
PosIn(seq, c) ==
    IF \E i \in 1..Len(seq) : seq[i] = c THEN CHOOSE i \in 1..Len(seq) : seq[i] = c ELSE 0

\* the order of Go's string comparison on the characters the model uses
CharRank(c) ==
    PosIn(<<"\n", " ", "\"", "%", "-", ".", "/", "0", "1", "2", ":", "=",
            "A", "B", "K", "S", "V", "X", "_",
            "a", "b", "c", "d", "e", "f", "g", "h", "i", "j", "k", "l", "m",
            "n", "o", "p", "q", "r", "s", "t", "u", "v", "w", "x", "y", "z",
            "{", "}">>, c)

RECURSIVE StrLess(_, _)
StrLess(a, b) ==
    IF b = <<>> THEN FALSE
    ELSE IF a = <<>> THEN TRUE
    ELSE IF a[1] = b[1] THEN StrLess(Tail(a), Tail(b))
    ELSE CharRank(a[1]) < CharRank(b[1])

(***************************************************************************)
(* HCL syntax trees (hclparse.ParseHCL, an external library), for the      *)
(* subset the indexer and the query engine look at: a body is a list of    *)
(* attributes `name = expr` and blocks `type "label"... { body }`.  An     *)
(* expression is a quoted string or a word; a word that starts with a      *)
(* letter is a reference (a traversal) whose root is its first dotted      *)
(* segment.  Ranges are byte offsets into the content.                     *)
(***************************************************************************)

Letters == {"a", "b", "c", "d", "e", "f", "g", "h", "i", "j", "k", "l", "m",
            "n", "o", "p", "q", "r", "s", "t", "u", "v", "w", "x", "y", "z",
            "A", "B", "K", "S", "V", "X"}

WordChars == Letters \cup {"0", "1", "2", "_", ".", "-"}

IsQuote(x) == x = "\""

NotWord(x) == x \notin WordChars

RECURSIVE LexFrom(_, _, _)
\* a quoted string that opens at i and closes at j
LexString(content, i, j, acc) ==
    IF j > Len(content) THEN [ok |-> FALSE, toks |-> acc]
    ELSE LexFrom(content, j + 1,
                 Append(acc, [kind |-> "str", text |-> SubSeq(content, i + 1, j - 1),
                              start |-> i - 1, end |-> j]))

\* a word from i up to j
LexWord(content, i, j, acc) ==
    LexFrom(content, j,
            Append(acc, [kind |-> "word", text |-> SubSeq(content, i, j - 1),
                         start |-> i - 1, end |-> j - 1]))

LexChar(content, i, c, acc) ==
    IF IsSpace(c) THEN LexFrom(content, i + 1, acc)
    ELSE IF c \in {"{", "}", "="} THEN
      LexFrom(content, i + 1,
              Append(acc, [kind |-> c, text |-> <<c>>, start |-> i - 1, end |-> i]))
    ELSE IF c = "\"" THEN LexString(content, i, FirstFrom(content, i + 1, IsQuote), acc)
    ELSE IF c \in WordChars THEN LexWord(content, i, FirstFrom(content, i, NotWord), acc)
    ELSE [ok |-> FALSE, toks |-> acc]

LexFrom(content, i, acc) ==
    IF i > Len(content) THEN [ok |-> TRUE, toks |-> acc]
    ELSE LexChar(content, i, content[i], acc)

Lex(content) == LexFrom(content, 1, <<>>)

EmptyBody == [attrs |-> <<>>, blocks |-> <<>>]

\* the free variables of an expression token (hclsyntax Expression.Variables)
ExprVariables(tok) ==
    IF tok.kind = "word" /\ tok.text[1] \in Letters
       /\ tok.text \notin {<<"t", "r", "u", "e">>, <<"f", "a", "l", "s", "e">>, <<"n", "u", "l", "l">>}
    THEN <<Split(tok.text, <<".">>)>>
    ELSE <<>>

NotStr(t) == t.kind # "str"

RECURSIVE ParseItems(_, _, _)
\* the block that starts at token i, whose body was parsed up to token inner.i
ParseBlockEnd(toks, i, b, acc, inner) ==
    IF ~inner.ok \/ inner.i > Len(toks) THEN [ok |-> FALSE, i |-> i, body |-> acc]
    ELSE ParseItems(toks, inner.i + 1,
           [acc EXCEPT !.blocks = Append(@, [type   |-> toks[i].text,
                                             labels |-> [k \in 1..(b - i - 1) |-> toks[i + k].text],
                                             start  |-> toks[i].start,
                                             end    |-> toks[inner.i].end,
                                             body   |-> inner.body])])

\* the block that starts at token i and whose labels end before token b
ParseBlock(toks, i, b, acc) ==
    IF b > Len(toks) \/ toks[b].kind # "{" THEN [ok |-> FALSE, i |-> i, body |-> acc]
    ELSE ParseBlockEnd(toks, i, b, acc, ParseItems(toks, b + 1, EmptyBody))

\* parses attributes and blocks from token i on, up to a closing brace or the end
ParseItems(toks, i, acc) ==
    IF i > Len(toks) THEN [ok |-> TRUE, i |-> i, body |-> acc]
    ELSE IF toks[i].kind = "}" THEN [ok |-> TRUE, i |-> i, body |-> acc]
    ELSE IF toks[i].kind # "word" THEN [ok |-> FALSE, i |-> i, body |-> acc]
    ELSE IF i + 1 <= Len(toks) /\ toks[i + 1].kind = "=" THEN
        \* an attribute; a second definition of the same name is a parse error
        IF /\ i + 2 <= Len(toks) /\ toks[i + 2].kind \in {"word", "str"}
           /\ \A k \in 1..Len(acc.attrs) : acc.attrs[k].name # toks[i].text
        THEN ParseItems(toks, i + 3,
               [acc EXCEPT !.attrs = Append(@, [name  |-> toks[i].text,
                                                start |-> toks[i + 2].start,
                                                end   |-> toks[i + 2].end,
                                                vars  |-> ExprVariables(toks[i + 2])])])
        ELSE [ok |-> FALSE, i |-> i, body |-> acc]
    ELSE ParseBlock(toks, i, FirstFrom(toks, i + 1, NotStr), acc)

ParseEnd(toks, r) ==
    IF r.ok /\ r.i > Len(toks) THEN [ok |-> TRUE, body |-> r.body]
    ELSE [ok |-> FALSE, body |-> EmptyBody]

ParseLexed(lx) ==
    IF lx.ok THEN ParseEnd(lx.toks, ParseItems(lx.toks, 1, EmptyBody))
    ELSE [ok |-> FALSE, body |-> EmptyBody]

\* parseHCLBody: the file's body, or an error
parseHCLBody(content) == ParseLexed(Lex(content))


(***************************************************************************)
(* Keywords and fixed strings of the source                                *)
(***************************************************************************)

s_resource == <<"r", "e", "s", "o", "u", "r", "c", "e">>
s_dynamic == <<"d", "y", "n", "a", "m", "i", "c">>
s_lifecycle == <<"l", "i", "f", "e", "c", "y", "c", "l", "e">>
s_variable == <<"v", "a", "r", "i", "a", "b", "l", "e">>
s_output == <<"o", "u", "t", "p", "u", "t">>
s_data == <<"d", "a", "t", "a">>
s_default == <<"d", "e", "f", "a", "u", "l", "t">>
s_var == <<"v", "a", "r">>
s_local == <<"l", "o", "c", "a", "l">>
s_module == <<"m", "o", "d", "u", "l", "e">>
s_path == <<"p", "a", "t", "h">>
s_terraform == <<"t", "e", "r", "r", "a", "f", "o", "r", "m">>
s_each == <<"e", "a", "c", "h">>
s_self == <<"s", "e", "l", "f">>
s_count == <<"c", "o", "u", "n", "t">>
s_azure == <<"a", "z", "u", "r", "e">>
s_modules == <<"m", "o", "d", "u", "l", "e", "s">>
s_module_output == <<"m", "o", "d", "u", "l", "e", "_", "o", "u", "t", "p", "u", "t">>
s_data_source == <<"d", "a", "t", "a", "_", "s", "o", "u", "r", "c", "e">>
s_loop == <<"l", "o", "o", "p">>
s_reference == <<"r", "e", "f", "e", "r", "e", "n", "c", "e">>
s_dot == <<".">>
s_dash == <<"-">>
s_slash == <<"/">>
s_nl == <<"\n">>
s_underscore == <<"_">>
s_tf == <<".", "t", "f">>
s_md == <<".", "m", "d">>
s_yml == <<".", "y", "m", "l">>
s_examples_slash == <<"e", "x", "a", "m", "p", "l", "e", "s", "/">>
s_modules_slash == <<"m", "o", "d", "u", "l", "e", "s", "/">>
s_submodule_infix == <<"/", "/", "m", "o", "d", "u", "l", "e", "s", "/">>
s_terraform_azure_dash == <<"t", "e", "r", "r", "a", "f", "o", "r", "m", "-", "a", "z", "u", "r", "e", "-">>
s_terraform_dash == <<"t", "e", "r", "r", "a", "f", "o", "r", "m", "-">>
s_azure_dash == <<"a", "z", "u", "r", "e", "-">>

(***************************************************************************)
(* The structural indexer (internal/indexer/sync.go)                       *)
(***************************************************************************)

\* the concatenation of F(s[k]) for k = 1..Len(s)
RECURSIVE Concat(_)
Concat(ss) == IF ss = <<>> THEN <<>> ELSE ss[1] \o Concat(Tail(ss))

FlatMap(s, F(_)) == Concat([k \in 1..Len(s) |-> F(s[k])])

HasAttr(body, name) == \E k \in 1..Len(body.attrs) : body.attrs[k].name = name

\* extractVariables: one row per top-level variable block with a label
extractVariables(body) ==
    LET One(b) == IF b.type = s_variable /\ Len(b.labels) > 0
                  THEN <<[t |-> "module_variables",
                          k |-> <<b.labels[1], ~HasAttr(b.body, s_default)>>]>>
                  ELSE <<>>
    IN  FlatMap(body.blocks, One)

extractOutputs(body) ==
    LET One(b) == IF b.type = s_output /\ Len(b.labels) > 0
                  THEN <<[t |-> "module_outputs", k |-> <<b.labels[1]>>]>>
                  ELSE <<>>
    IN  FlatMap(body.blocks, One)

\* util.ExtractProvider: the token before the first underscore
providerFromType(fullType) == Split(fullType, s_underscore)[1]

extractResources(body, fileName) ==
    LET One(b) == IF b.type = s_resource /\ Len(b.labels) >= 2
                  THEN <<[t |-> "module_resources",
                          k |-> <<b.labels[1], b.labels[2],
                                  providerFromType(b.labels[1]), fileName>>]>>
                  ELSE <<>>
    IN  FlatMap(body.blocks, One)

extractDataSources(body, fileName) ==
    LET One(b) == IF b.type = s_data /\ Len(b.labels) >= 2
                  THEN <<[t |-> "module_data_sources",
                          k |-> <<b.labels[1], b.labels[2],
                                  providerFromType(b.labels[1]), fileName>>]>>
                  ELSE <<>>
    IN  FlatMap(body.blocks, One)

RECURSIVE collectAttrPaths(_, _)
\* every attribute key and nested block type under a body, dot-joined from prefix
collectAttrPaths(b, prefix) ==
    LET P(name) == IF prefix = <<>> THEN name ELSE prefix \o s_dot \o name
        OfAttr(a) == <<P(a.name)>>
        Under(nb, p) == <<p>> \o collectAttrPaths(nb.body, p)
        OfBlock(nb) == Under(nb, P(nb.type))
    IN  FlatMap(b.attrs, OfAttr) \o FlatMap(b.blocks, OfBlock)

BlockKinds == {s_resource, s_dynamic, s_lifecycle}

RECURSIVE walkBlocks(_)
\* indexHCLBlocks: the index rows of a body, every nesting depth, in walk order
walkBlocks(b) ==
    LET One(bl) ==
          (IF bl.type \in BlockKinds
           THEN <<[btype |-> bl.type,
                   label |-> IF bl.type = s_resource /\ Len(bl.labels) >= 2 THEN bl.labels[1]
                             ELSE IF bl.type = s_dynamic /\ Len(bl.labels) >= 1 THEN bl.labels[1]
                             ELSE <<>>,
                   start |-> bl.start,
                   end   |-> bl.end,
                   attrs |-> Join(collectAttrPaths(bl.body, <<>>), s_nl)]>>
           ELSE <<>>) \o walkBlocks(bl.body)
    IN  FlatMap(b.blocks, One)

joinAttributePath(prefix, name) ==
    IF prefix = <<>> THEN name
    ELSE IF name = <<>> THEN prefix
    ELSE prefix \o s_dot \o name

classifyRootByNameOnly(rootName, refName) ==
    IF Contains(rootName, s_underscore) THEN <<s_resource, refName>>
    ELSE <<rootName, refName>>

\* the reference kind of a root keyword, with the reference text
classifyRoot(rootName, refName) ==
        CASE rootName = s_var       -> <<s_variable, refName>>
          [] rootName = s_local     -> <<s_local, refName>>
          [] rootName = s_module    -> <<s_module_output, refName>>
          [] rootName = s_data      -> <<s_data_source, refName>>
          [] rootName = s_path      -> <<s_path, refName>>
          [] rootName = s_terraform -> <<s_terraform, refName>>
          [] rootName = s_each      -> <<s_loop, refName>>
          [] rootName = s_self      -> <<s_self, refName>>
          [] rootName = s_count     -> <<s_count, refName>>
          [] OTHER -> IF Contains(rootName, s_underscore)
                      THEN <<s_resource, refName>>
                      ELSE <<s_reference, refName>>

\* classifyTraversal: <<reference kind, reference text>> from the root keyword
classifyTraversal(traversal) == classifyRoot(traversal[1], Join(traversal, s_dot))

\* the rows of one attribute whose references are refs: one per distinct reference
attributeRelationships(block, prefix, a, refs) ==
    LET Row(k) == IF \A j \in 1..(k - 1) : refs[j][2] # refs[k][2]
                  THEN <<[t |-> "hcl_relationships",
                          k |-> <<block.type, Join(block.labels, s_dot),
                                  joinAttributePath(prefix, a.name),
                                  refs[k][1], refs[k][2], a.start, a.end>>]>>
                  ELSE <<>>
    IN  FlatMap([k \in 1..Len(refs) |-> k], Row)

\* the path segment of a nested block: its type and its labels
blockSegment(child) ==
    IF Len(child.labels) > 0
    THEN joinAttributePath(child.type, Join(child.labels, s_dot))
    ELSE child.type

RECURSIVE walkRelationships(_, _, _)
\* collectRelationships' walk: the rows of the attributes, then those of the children
walkRelationships(block, prefix, body) ==
    LET OfAttr(a) ==
          attributeRelationships(block, prefix, a,
                                 [k \in 1..Len(a.vars) |-> classifyTraversal(a.vars[k])])
        OfChild(child) ==
          walkRelationships(block, joinAttributePath(prefix, blockSegment(child)), child.body)
    IN  FlatMap(body.attrs, OfAttr) \o FlatMap(body.blocks, OfChild)

collectRelationships(body) ==
    LET One(block) == walkRelationships(block, <<>>, block.body)
    IN  FlatMap(body.blocks, One)

\* path.Base for a slash-separated relative path
Last(parts) == parts[Len(parts)]

Base(p) == Last(Split(p, s_slash))

getFileType(fileName) ==
    IF HasSuffix(fileName, s_tf) THEN "terraform"
    ELSE IF HasSuffix(fileName, s_md) THEN "markdown"
    ELSE IF HasSuffix(fileName, s_yml) THEN "yaml"
    ELSE "other"

\* normalizeArchivePath: the entry name without its top-level directory
AfterCut(c) == IF c[3] THEN c[2] ELSE <<>>

normalizeArchivePath(name) == AfterCut(Cut(name, s_slash))

skipDirs == {<<".", "g", "i", "t">>, <<".", "g", "i", "t", "h", "u", "b">>,
             <<"n", "o", "d", "e", "_", "m", "o", "d", "u", "l", "e", "s">>,
             <<".", "t", "e", "r", "r", "a", "f", "o", "r", "m">>}

AnyIn(segs, dirs) == \E k \in 1..Len(segs) : segs[k] \in dirs

shouldSkipPath(relativePath) == AnyIn(Split(relativePath, s_slash), skipDirs)


(***************************************************************************)
(* The store (internal/database/db.go and its schema).  db is a record:    *)
(*   modules  set of rows [id, name, lastUpdated, readme, hasExamples]     *)
(*   nextID   the next AUTOINCREMENT id of modules                         *)
(*   files    module_files rows [mid, path, name, type, content] in rowid  *)
(*            order, unique on (mid, path)                                 *)
(*   rows     bag of rows [t, mid, k] of the tables filled by plain        *)
(*            INSERT: module_variables, module_outputs, module_resources,  *)
(*            module_data_sources, hcl_relationships                       *)
(*   blocks   hcl_blocks in rowid (insertion) order                        *)
(*   tags, aliases   sets of rows [mid, s, w], unique on (mid, s)          *)
(***************************************************************************)

EmptyDB == [modules |-> {}, nextID |-> 1, files |-> <<>>, rows |-> EmptyBag,
            blocks |-> <<>>, tags |-> {}, aliases |-> {}]

ModuleNamed(db, name) == {m \in db.modules : m.name = name}

ModuleByID(db, id) == {m \in db.modules : m.id = id}

\* GetModule / the SELECT id of InsertModule
IDOf(db, name) == (CHOOSE m \in db.modules : m.name = name).id

\* InsertModule: INSERT ... ON CONFLICT(name) DO UPDATE SET every mutable column
InsertModule(db, m) ==
    IF ModuleNamed(db, m.name) # {}
    THEN [db EXCEPT !.modules =
            {IF x.name = m.name
             THEN [x EXCEPT !.lastUpdated = m.lastUpdated, !.readme = m.readme,
                            !.hasExamples = m.hasExamples]
             ELSE x : x \in @}]
    ELSE [db EXCEPT !.modules = @ \cup {[id |-> db.nextID, name |-> m.name,
                                         lastUpdated |-> m.lastUpdated,
                                         readme |-> m.readme,
                                         hasExamples |-> m.hasExamples]},
                    !.nextID = @ + 1]

\* InsertFile: INSERT ... ON CONFLICT(module_id, file_path) DO UPDATE
InsertFile(db, f) ==
    IF \E i \in 1..Len(db.files) : db.files[i].mid = f.mid /\ db.files[i].path = f.path
    THEN [db EXCEPT !.files = [i \in 1..Len(@) |->
                                 IF @[i].mid = f.mid /\ @[i].path = f.path THEN f ELSE @[i]]]
    ELSE [db EXCEPT !.files = Append(@, f)]

RECURSIVE SeqToBag(_)
SeqToBag(s) == IF s = <<>> THEN EmptyBag ELSE SetToBag({s[1]}) (+) SeqToBag(Tail(s))

\* InsertVariable, InsertOutput, InsertResource, InsertDataSource,
\* InsertRelationship: plain INSERTs, one new row each
InsertRows(db, mid, rs) ==
    [db EXCEPT !.rows = @ (+) SeqToBag([k \in 1..Len(rs) |->
                                          [t |-> rs[k].t, mid |-> mid, k |-> rs[k].k]])]

\* InsertHCLBlock for each row of one file, in order
InsertHCLBlocks(db, mid, path, bs) ==
    [db EXCEPT !.blocks = @ \o [k \in 1..Len(bs) |->
          [mid |-> mid, path |-> path, btype |-> bs[k].btype, label |-> bs[k].label,
           start |-> bs[k].start, end |-> bs[k].end, attrs |-> bs[k].attrs]]]

BagWithout(b, Drop(_)) ==
    LET keep == {r \in BagToSet(b) : ~Drop(r)} IN [r \in keep |-> b[r]]

RECURSIVE WithoutModules(_, _)
WithoutModules(s, ids) ==
    IF s = <<>> THEN <<>>
    ELSE (IF s[1].mid \in ids THEN <<>> ELSE <<s[1]>>) \o WithoutModules(Tail(s), ids)

ClearTables == {"module_files", "module_variables", "module_outputs", "module_resources",
                "module_data_sources", "module_examples", "hcl_blocks", "hcl_relationships"}

ClearModuleDataBuggy(db, moduleID) ==
    [db EXCEPT !.files = WithoutModules(@, {moduleID})]

\* ClearModuleData: DELETE ... WHERE module_id = ? on the eight tables, one transaction
ClearModuleData(db, moduleID) ==
    LET Drop(r) == r.mid = moduleID /\ r.t \in ClearTables
    IN  [db EXCEPT !.files  = WithoutModules(@, {moduleID}),
                   !.rows   = BagWithout(@, Drop),
                   !.blocks = WithoutModules(@, {moduleID})]

ClearModuleTags(db, moduleID) == [db EXCEPT !.tags = {x \in @ : x.mid # moduleID}]

ClearModuleAliases(db, moduleID) == [db EXCEPT !.aliases = {x \in @ : x.mid # moduleID}]

\* the schema's FOREIGN KEY (module_id) ... ON DELETE CASCADE of module_files,
\* module_variables, module_outputs, module_resources, module_data_sources
CascadeDeclared(db, ids) ==
    LET Drop(r) == r.mid \in ids /\ r.t # "hcl_relationships"
    IN  [db EXCEPT !.files = WithoutModules(@, ids),
                   !.rows  = BagWithout(@, Drop)]

\* the same rule for hcl_blocks, hcl_relationships, module_tags and module_aliases,
\* whose CREATE TABLE statements are not part of the sources at hand
CascadeIndexTables(db, ids) ==
    LET Drop(r) == r.mid \in ids /\ r.t = "hcl_relationships"
    IN  [db EXCEPT !.rows    = BagWithout(@, Drop),
                   !.blocks  = WithoutModules(@, ids),
                   !.tags    = {x \in @ : x.mid \notin ids},
                   !.aliases = {x \in @ : x.mid \notin ids}]

DeleteModules(db, ids) ==
    CascadeIndexTables(CascadeDeclared([db EXCEPT !.modules = {m \in @ : m.id \notin ids}],
                                       ids), ids)

\* DeleteModuleByID: DELETE FROM modules WHERE id = ?
DeleteModuleByID(db, moduleID) == DeleteModules(db, {moduleID})

\* DeleteChildModules: DELETE FROM modules WHERE name LIKE parentName || '//%'
\* (the repository names of the model hold no LIKE wildcard)
DeleteChildModules(db, parentName) ==
    DeleteModules(db, {m.id : m \in {x \in db.modules :
                                       HasPrefix(x.name, parentName \o <<"/", "/">>)}})

SetModuleHasExamples(db, moduleID, flag) ==
    [db EXCEPT !.modules = {IF x.id = moduleID THEN [x EXCEPT !.hasExamples = flag] ELSE x
                            : x \in @}]

\* GetModuleFiles: the files of one module, in table order
GetModuleFiles(db, mid) == LET Of(f) == f.mid = mid IN SelectSeq(db.files, Of)


(***************************************************************************)
(* Tags and aliases derived from a module's name and resources.            *)
(***************************************************************************)

RECURSIVE SumOver(_, _)
\* the sum of f[x] over the elements x of S
SumOver(f, S) ==
    IF S = {} THEN 0
    ELSE LET x == CHOOSE y \in S : TRUE IN f[x] + SumOver(f, S \ {x})

CountIn(s, x) == Cardinality({i \in 1..Len(s) : s[i] = x})

Range(seq) == {seq[i] : i \in 1..Len(seq)}

KeepTagToken(t) ==
    IF t # <<>> /\ t # s_azure /\ t # s_modules /\ t # s_terraform /\ Len(t) > 3
    THEN <<t>> ELSE <<>>

\* the tokens of a module name that count towards its tags
TagNameTokens(name) ==
    LET n1 == ReplaceAll(name, s_terraform_dash, <<>>)
        n2 == ReplaceAll(n1, s_azure_dash, <<>>)
        n3 == ReplaceAll(n2, <<"/", "/">>, s_dash)
        Keep(tk) == KeepTagToken(TrimSpace(tk))
    IN  FlatMap(Split(ToLower(n3), s_dash), Keep)

LongPartsAfterFirst(parts) ==
    Concat([i \in 1..Len(parts) |->
              IF i = 1 \/ Len(parts[i]) <= 3 THEN <<>> ELSE <<ToLower(parts[i])>>])

\* the tokens of a resource type that count towards tags
TagTypeTokens(rtype) == LongPartsAfterFirst(Split(rtype, s_underscore))

ResourcesOf(db, mid) ==
    {r \in BagToSet(db.rows) : r.mid = mid /\ r.t = "module_resources"}

\* the weight of every tag of a module with name tokens nameT and resource rows res
TagWeightsOf(db, moduleID, nameT, res) ==
    LET W(tg) == SumOver([r \in res |->
                             2 * db.rows[r] * CountIn(TagTypeTokens(r.k[1]), tg)], res)
                 + CountIn(nameT, tg)
    IN  {[mid |-> moduleID, s |-> tg, w |-> W(tg)] :
           tg \in UNION {Range(TagTypeTokens(r.k[1])) : r \in res} \cup Range(nameT)}

TagWeights(db, moduleID) ==
    TagWeightsOf(db, moduleID,
                 TagNameTokens((CHOOSE x \in db.modules : x.id = moduleID).name),
                 ResourcesOf(db, moduleID))

persistModuleTags(db, moduleID) ==
    IF ModuleByID(db, moduleID) = {} THEN db
    ELSE [ClearModuleTags(db, moduleID) EXCEPT !.tags = @ \cup TagWeights(db, moduleID)]

KeepAliasToken(t) ==
    IF t # <<>> /\ t # s_modules /\ t # s_azure /\ t # s_terraform THEN <<t>> ELSE <<>>

AliasTokens(name) ==
    LET n1 == TrimPrefix(name, s_terraform_azure_dash)
        n2 == TrimPrefix(n1, s_terraform_dash)
        n3 == TrimPrefix(n2, s_azure_dash)
        n4 == ReplaceAll(n3, s_submodule_infix, s_dash)
        Keep(part) == KeepAliasToken(TrimSpace(part))
    IN  FlatMap(Split(n4, s_dash), Keep)

\* the (alias, weight) pairs of a module with these name tokens and tags
AliasesOf(tokens, n, tgs) ==
    LET raw == {<<Join(tokens, s_dash), 3>>}
               \cup (IF n > 0 THEN {<<tokens[1], 3>>} ELSE {})
               \cup (IF n > 1 THEN {<<tokens[n], 2>>} ELSE {})
               \cup {<<tokens[i], 2>> : i \in 1..n}
               \cup (IF n > 1 THEN {<<[i \in 1..n |-> tokens[i][1]], 1>>} ELSE {})
               \cup {<<x.s, 1>> : x \in tgs}
    IN  {<<ToLower(c[1]), c[2]>> : c \in {x \in raw : Len(x[1]) >= 2}}

AliasesOfTokens(tokens, tgs) == AliasesOf(tokens, Len(tokens), tgs)

\* every (alias, weight) pair handed to add, before the per-alias maximum is taken
AliasCandidates(db, moduleID) ==
    AliasesOfTokens(AliasTokens((CHOOSE x \in db.modules : x.id = moduleID).name),
                    {x \in db.tags : x.mid = moduleID})

\* the pairs of the greatest weight of each alias
BestAliases(cs) == {c \in cs : \A o \in cs : o[1] = c[1] => o[2] <= c[2]}

persistModuleAliases(db, moduleID) ==
    IF ModuleByID(db, moduleID) = {} THEN db
    ELSE [ClearModuleAliases(db, moduleID) EXCEPT !.aliases = @ \cup
            {[mid |-> moduleID, s |-> c[1], w |-> c[2]] :
               c \in BestAliases(AliasCandidates(db, moduleID))}]


(***************************************************************************)
(* The upstream organisation the model syncs from: four repositories, two  *)
(* of which pass the discovery filter.  "kv" has a submodule, an example,  *)
(* a README and a workflow file; "sa" is a single file.                    *)
(***************************************************************************)

kvMainTf == <<"v", "a", "r", "i", "a", "b", "l", "e", " ", "\"", "v", "\"", " ", "{", "}", "\n", "r", "e", "s", "o", "u", "r", "c", "e", " ", "\"", "a", "z", "_", "v", "a", "u", "l", "t", "\"", " ", "\"", "x", "\"", " ", "{", "\n", " ", "n", " ", "=", " ", "v", "a", "r", ".", "v", "\n", " ", "l", "i", "f", "e", "c", "y", "c", "l", "e", " ", "{", " ", "i", " ", "=", " ", "1", " ", "}", "\n", "}", "\n">>

subMainTf == <<"o", "u", "t", "p", "u", "t", " ", "\"", "o", "\"", " ", "{", "}", "\n">>

saMainTf == <<"r", "e", "s", "o", "u", "r", "c", "e", " ", "\"", "a", "z", "_", "s", "a", "\"", " ", "\"", "s", "\"", " ", "{", "}", "\n">>

exampleTf == <<"e", " ", "=", " ", "1", "\n">>

readmeMd == <<"#", " ", "k", "v", "\n">>

p_top == <<"t", "o", "p", "/">>

p_main == <<"t", "o", "p", "/", "m", "a", "i", "n", ".", "t", "f">>

p_sub == <<"t", "o", "p", "/", "m", "o", "d", "u", "l", "e", "s", "/", "s", "u", "b", "/", "m", "a", "i", "n", ".", "t", "f">>

p_example == <<"t", "o", "p", "/", "e", "x", "a", "m", "p", "l", "e", "s", "/", "e", "/", "m", "a", "i", "n", ".", "t", "f">>

p_workflow == <<"t", "o", "p", "/", ".", "g", "i", "t", "h", "u", "b", "/", "w", ".", "y", "m", "l">>

p_readme == <<"t", "o", "p", "/", "R", "E", "A", "D", "M", "E", ".", "m", "d">>

n_kv == <<"t", "e", "r", "r", "a", "f", "o", "r", "m", "-", "a", "z", "u", "r", "e", "-", "k", "v">>

n_sa == <<"t", "e", "r", "r", "a", "f", "o", "r", "m", "-", "a", "z", "u", "r", "e", "-", "s", "a">>

n_pv == <<"t", "e", "r", "r", "a", "f", "o", "r", "m", "-", "a", "z", "u", "r", "e", "-", "p", "v">>

n_docs == <<"d", "o", "c", "s">>

Repos == {"kv", "sa", "pv", "docs"}

Repo(r) ==
    CASE r = "kv"   -> [id |-> r, name |-> n_kv, private |-> FALSE, archived |-> FALSE, size |-> 1]
      [] r = "sa"   -> [id |-> r, name |-> n_sa, private |-> FALSE, archived |-> FALSE, size |-> 1]
      [] r = "pv"   -> [id |-> r, name |-> n_pv, private |-> TRUE, archived |-> FALSE, size |-> 1]
      [] r = "docs" -> [id |-> r, name |-> n_docs, private |-> FALSE, archived |-> FALSE, size |-> 1]

\* the repositories whose README the API can deliver
HasReadme(r) == r = "kv"

\* the listing of the organisation, in the order the API returns it
Listing == <<"docs", "kv", "pv", "sa">>

\* the tar entries of a repository's archive: name, regular file or not, content
Archive(r) ==
    IF r = "kv"
    THEN << [name |-> p_top,      reg |-> FALSE, content |-> <<>>],
            [name |-> p_readme,   reg |-> TRUE,  content |-> readmeMd],
            [name |-> p_main,     reg |-> TRUE,  content |-> kvMainTf],
            [name |-> p_workflow, reg |-> TRUE,  content |-> <<>>],
            [name |-> p_sub,      reg |-> TRUE,  content |-> subMainTf],
            [name |-> p_example,  reg |-> TRUE,  content |-> exampleTf] >>
    ELSE << [name |-> p_main,     reg |-> TRUE,  content |-> saMainTf] >>


(***************************************************************************)
(* The steps of the per-repository pipeline as transformations of db.      *)
(* repo is a record [name, updatedAt].                                     *)
(***************************************************************************)

\* insertModuleMetadata: the upsert carries no README and has_examples = false
insertModuleMetadata(db, repo) ==
    InsertModule(db, [name |-> repo.name, lastUpdated |-> repo.updatedAt,
                      readme |-> <<>>, hasExamples |-> FALSE])

\* a variant that clears nothing
clearNothing(db, moduleID, repoName) == db

clearExistingModuleData(db, moduleID, repoName) ==
    DeleteChildModules(IF ModuleByID(db, moduleID) # {} /\ moduleID # 0
                       THEN ClearModuleData(db, moduleID) ELSE db,
                       repoName)

\* syncReadme after a successful fetch: a second upsert by name
syncReadme(db, repo, readme) ==
    InsertModule(db, [name |-> repo.name, lastUpdated |-> repo.updatedAt,
                      readme |-> readme, hasExamples |-> FALSE])

handleUnavailableRepoKeepsRow(db, moduleID) == db

handleUnavailableRepo(db, moduleID) == DeleteModuleByID(db, moduleID)

SubmoduleName(repoName, subKey) == repoName \o s_submodule_infix \o subKey

clearNamed(d1, name) == ClearModuleData(d1, IDOf(d1, name))

ensureSubmoduleModule(db, repo, subKey) ==
    clearNamed(InsertModule(db, [name |-> SubmoduleName(repo.name, subKey),
                                 lastUpdated |-> repo.updatedAt,
                                 readme |-> <<>>, hasExamples |-> FALSE]),
               SubmoduleName(repo.name, subKey))

\* the ingestion state once submodule subKey has the module row cid in store d1
withSubmodule(st, d1, subKey, cid) ==
    [st |-> [st EXCEPT !.db = d1,
                       !.subs = [k \in DOMAIN @ \cup {subKey} |->
                                   IF k = subKey THEN cid ELSE @[k]],
                       !.order = Append(@, cid)],
     target |-> cid]

newSubmodule(st, d1, repo, subKey) ==
    withSubmodule(st, d1, subKey, IDOf(d1, SubmoduleName(repo.name, subKey)))

submoduleTarget(st, moduleID, repo, parts) ==
    IF Len(parts) < 2 THEN [st |-> st, target |-> moduleID]
    ELSE IF parts[2] \in DOMAIN st.subs THEN [st |-> st, target |-> st.subs[parts[2]]]
    ELSE newSubmodule(st, ensureSubmoduleModule(st.db, repo, parts[2]), repo, parts[2])

\* resolveTargetModule on the ingestion state st = [db, examples, subs, order]
resolveTargetModule(st, moduleID, relativePath, repo) ==
    IF ~HasPrefix(relativePath, s_modules_slash) THEN [st |-> st, target |-> moduleID]
    ELSE submoduleTarget(st, moduleID, repo, Split(relativePath, s_slash))

insertNamedFile(db, moduleID, relativePath, fileName, content) ==
    InsertFile(db, [mid |-> moduleID, path |-> relativePath, name |-> fileName,
                    type |-> getFileType(fileName), content |-> content])

insertModuleFile(db, moduleID, relativePath, content) ==
    insertNamedFile(db, moduleID, relativePath, Base(relativePath), content)

\* the file of an entry stored under the module resolveTargetModule has chosen
ingestInto(rt, relativePath, content) ==
    [rt.st EXCEPT !.db = insertModuleFile(rt.st.db, rt.target, relativePath, content),
                  !.examples = @ \/ HasPrefix(relativePath, s_examples_slash)]

ingestPath(st, moduleID, repo, header, relativePath) ==
    IF ~header.reg \/ relativePath = <<>> \/ shouldSkipPath(relativePath) THEN st
    ELSE ingestInto(resolveTargetModule(st, moduleID, relativePath, repo),
                    relativePath, header.content)

\* one turn of the loop of processArchiveEntries
IngestEntry(st, moduleID, repo, header) ==
    ingestPath(st, moduleID, repo, header, normalizeArchivePath(header.name))

RECURSIVE IngestEntries(_, _, _, _, _)
\* the first n entries of the archive, in order
IngestEntries(st, moduleID, repo, entries, n) ==
    IF n = 0 THEN st
    ELSE IngestEntry(IngestEntries(st, moduleID, repo, entries, n - 1),
                     moduleID, repo, entries[n])

processArchiveEntries(db, moduleID, repo, entries, n) ==
    IngestEntries([db |-> db, examples |-> FALSE, subs |-> << >>, order |-> <<>>],
                  moduleID, repo, entries, n)

\* indexRelationships: one row per relationship, with the path of the file
insertRelationships(db, moduleID, filePath, rels) ==
    InsertRows(db, moduleID, [k \in 1..Len(rels) |->
                                [t |-> rels[k].t, k |-> <<filePath>> \o rels[k].k]])

\* the rows of a parsed body: variables, outputs, resources, data sources, blocks and
\* relationships, in that order
indexBody(db, moduleID, file, body) ==
    LET d1 == InsertRows(db, moduleID, extractVariables(body))
        d2 == InsertRows(d1, moduleID, extractOutputs(body))
        d3 == InsertRows(d2, moduleID, extractResources(body, file.name))
        d4 == InsertRows(d3, moduleID, extractDataSources(body, file.name))
        d5 == InsertHCLBlocks(d4, moduleID, file.path, walkBlocks(body))
    IN  insertRelationships(d5, moduleID, file.path, collectRelationships(body))

indexParsed(db, moduleID, file, parsed) ==
    IF ~parsed.ok THEN db ELSE indexBody(db, moduleID, file, parsed.body)

parseAndIndexTerraformFile(db, moduleID, file) ==
    indexParsed(db, moduleID, file, parseHCLBody(file.content))

RECURSIVE IndexFiles(_, _, _)
IndexFiles(db, moduleID, files) ==
    IF files = <<>> THEN db
    ELSE IndexFiles(IF files[1].type = "terraform"
                    THEN parseAndIndexTerraformFile(db, moduleID, files[1]) ELSE db,
                    moduleID, Tail(files))

parseAndIndexTerraformFiles(db, moduleID) ==
    IndexFiles(db, moduleID, GetModuleFiles(db, moduleID))

RECURSIVE indexModules(_, _)
\* parseAndIndexTerraformFiles for the modules of ids, in order
indexModules(db, ids) ==
    IF ids = <<>> THEN db
    ELSE indexModules(parseAndIndexTerraformFiles(db, ids[1]), Tail(ids))

RECURSIVE tagModules(_, _)
\* persistModuleTags for the modules of ids, in order
tagModules(db, ids) ==
    IF ids = <<>> THEN db ELSE tagModules(persistModuleTags(db, ids[1]), Tail(ids))

RECURSIVE aliasModules(_, _)
\* persistModuleAliases for the modules of ids, in order
aliasModules(db, ids) ==
    IF ids = <<>> THEN db ELSE aliasModules(persistModuleAliases(db, ids[1]), Tail(ids))

parseModulesAndSubmodules(db, moduleID, submoduleIDs) ==
    indexModules(db, <<moduleID>> \o submoduleIDs)


(***************************************************************************)
(* The running server: store, upstream markers, job registry, the sync     *)
(* pass in progress with its workers and progress record.                  *)
(*                                                                         *)
(* The client starts a pass only when no other pass is in progress.        *)
(***************************************************************************)

VARIABLES db, marker, jobs, pass, workers, progress, alive, reply, last, lastPass, faults

vars == <<db, marker, jobs, pass, workers, progress, alive, reply, last, lastPass, faults>>

MaxPasses == 2

MaxMarker == 2

\* how many pushes the upstream sees in one run
MaxPushes == 1

\* how many failures the environment injects in one run
MaxFaults == 1

\* the numbers of archive entries after which a download or read may fail
FailAfter == {0, 5}

defaultWorkerCount == 4

maxTokens == 60

Workers == 1..defaultWorkerCount

Syncable == {"kv", "sa"}

NoPass == [kind |-> "none", job |-> 0, phase |-> "none", queue |-> <<>>, seen |-> << >>,
           inline |-> FALSE, skipped |-> {}, snap |-> EmptyDB, n |-> 0]

OffWorker == [pc |-> "off", repo |-> "", mid |-> 0, subs |-> <<>>, examples |-> FALSE,
              err |-> "", steps |-> <<>>, unavailable |-> FALSE]

NoProgress == [total |-> 0, processed |-> 0, skipped |-> 0, current |-> "",
               errors |-> <<>>, updated |-> <<>>]

NoReply == [tool |-> "", job |-> 0, status |-> "", completed |-> FALSE, error |-> ""]

\* the variables besides the store and the answer to the client
rest == <<marker, jobs, pass, workers, progress, alive, last, lastPass, faults>>

\* what the model remembers of finished pipelines and passes, to state properties
InitGhost ==
    /\ last = [r \in Syncable |-> [ok |-> FALSE, marker |-> 0, view |-> << >>]]
    /\ lastPass = [kind |-> "none", result |-> "", discovered |-> FALSE, failed |-> {},
                   unavailable |-> {}]

InitRest ==
    /\ marker = [r \in Syncable |-> 1]
    /\ jobs = <<>>
    /\ pass = NoPass
    /\ workers = [w \in Workers |-> OffWorker]
    /\ progress = NoProgress
    /\ alive = TRUE
    /\ faults = 0
    /\ InitGhost

Init ==
    /\ db = EmptyDB
    /\ reply = NoReply
    /\ InitRest

\* a push to an upstream repository changes its last-modified marker.  A pass reads
\* the markers once, at discovery, so a push during a pass acts as one after it.
UpstreamPush(r) ==
    /\ pass.kind = "none"
    /\ marker[r] < MaxMarker
    /\ SumOver([x \in Syncable |-> marker[x] - 1], Syncable) < MaxPushes
    /\ marker' = [marker EXCEPT ![r] = @ + 1]
    /\ UNCHANGED <<db, jobs, pass, workers, progress, alive, reply, last, lastPass, faults>>

workerCountFor(total) ==
    IF total <= 1 THEN (IF total < 1 THEN 0 ELSE 1)
    ELSE LET c1 == defaultWorkerCount
             c2 == IF maxTokens > 0 /\ c1 > maxTokens THEN maxTokens ELSE c1
             c3 == IF c2 > total THEN total ELSE c2
         IN  IF c3 < 1 THEN 1 ELSE c3

\* startSyncJob: the job is registered as running before the goroutine starts
startSyncJob(jobType) ==
    Append(jobs, [type |-> jobType, status |-> "running", completed |-> FALSE,
                  error |-> "", progress |-> NoProgress])

completeJobWithError(js, jobID, errMsg) ==
    IF jobID \in DOMAIN js
    THEN [js EXCEPT ![jobID].status = "failed", ![jobID].error = errMsg,
                    ![jobID].completed = TRUE]
    ELSE js

completeJobWithSuccessBuggy(js, jobID, p) ==
    IF jobID \in DOMAIN js
    THEN [js EXCEPT ![jobID].status = "completed", ![jobID].progress = p]
    ELSE js

completeJobWithSuccess(js, jobID, p) ==
    IF jobID \in DOMAIN js
    THEN [js EXCEPT ![jobID].status = "completed", ![jobID].progress = p,
                    ![jobID].completed = TRUE]
    ELSE js

\* handleSyncModules: register the job, start SyncAll in a goroutine, answer with the id
handleSyncModules ==
    /\ alive /\ pass.kind = "none" /\ pass.n < MaxPasses
    /\ jobs' = startSyncJob("full_sync")
    /\ pass' = [NoPass EXCEPT !.kind = "full", !.job = Len(jobs) + 1, !.phase = "discover",
                              !.n = pass.n + 1]
    /\ progress' = NoProgress
    /\ reply' = [NoReply EXCEPT !.tool = "sync_modules", !.job = Len(jobs) + 1]
    /\ UNCHANGED <<db, marker, workers, alive, last, lastPass, faults>>

\* handleSyncUpdatesModules runs SyncUpdates inside the handler; it answers at the end
handleSyncUpdatesModules ==
    /\ alive /\ pass.kind = "none" /\ pass.n < MaxPasses
    /\ pass' = [NoPass EXCEPT !.kind = "incremental", !.phase = "discover", !.n = pass.n + 1]
    /\ progress' = NoProgress
    /\ reply' = NoReply
    /\ UNCHANGED <<db, marker, jobs, workers, alive, last, lastPass, faults>>

\* formatJobDetails: what a status poll of job j shows
JobDetails(j) == [status |-> jobs[j].status, completed |-> jobs[j].completed,
                  error |-> jobs[j].error]

\* handleSyncStatus with a job id: getJob, then formatJobDetails; the registry is only
\* read.  The message loop is busy while an incremental pass runs in its handler.
handleSyncStatus(j) ==
    /\ alive /\ pass.kind # "incremental"
    /\ j \in DOMAIN jobs
    /\ JobDetails(j).status \in {"running", "completed", "failed"}
    /\ UNCHANGED vars


RepoOf(r, seen) == [name |-> Repo(r).name, updatedAt |-> seen[r]]

\* the filter of fetchRepositories over the listing
terraformRepos ==
    LET Keep(r) == HasPrefix(Repo(r).name, s_terraform_azure_dash)
                   /\ ~Repo(r).private /\ ~Repo(r).archived /\ Repo(r).size > 0
    IN  SelectSeq(Listing, Keep)

\* the pass is over: SyncAll or SyncUpdates has returned (or its goroutine has died)
EndPass(result, discovered) ==
    /\ pass' = [NoPass EXCEPT !.n = pass.n]
    /\ workers' = [w \in Workers |-> OffWorker]
    /\ lastPass' = [kind |-> pass.kind, result |-> result, discovered |-> discovered,
                    failed |-> lastPass.failed, unavailable |-> lastPass.unavailable]

\* what the caller of SyncAll / SyncUpdates does with an error
ReturnError(msg) ==
    IF pass.kind = "full"
    THEN /\ jobs' = completeJobWithError(jobs, pass.job, msg)
         /\ UNCHANGED reply
    ELSE /\ reply' = [NoReply EXCEPT !.tool = "sync_updates_modules", !.status = "error",
                                     !.error = msg]
         /\ UNCHANGED jobs

\* what the caller of SyncAll / SyncUpdates does with a progress record
ReturnProgress ==
    IF pass.kind = "full"
    THEN /\ jobs' = completeJobWithSuccess(jobs, pass.job, progress)
         /\ UNCHANGED reply
    ELSE /\ reply' = [NoReply EXCEPT !.tool = "sync_updates_modules", !.status = "ok"]
         /\ UNCHANGED jobs

\* fetchRepositories fails: the pass returns the error
DiscoveryFails ==
    /\ alive /\ pass.phase = "discover"
    /\ ReturnError("failed to fetch repositories")
    /\ EndPass("error", FALSE)
    /\ UNCHANGED <<db, marker, progress, alive, last, faults>>

\* the entry of processRepoQueue for the queue q
StartQueue(q, seen, skippedSet, prog) ==
    LET count == workerCountFor(Len(q))
    IN  /\ pass' = [pass EXCEPT !.phase = IF q = <<>> THEN "return" ELSE "run",
                                !.queue = q, !.seen = seen, !.inline = (count <= 1),
                                !.skipped = skippedSet, !.snap = db]
        /\ workers' = [w \in Workers |->
                         IF q # <<>> /\ w <= count THEN [OffWorker EXCEPT !.pc = "idle"]
                         ELSE OffWorker]
        /\ progress' = prog
        /\ lastPass' = [lastPass EXCEPT !.failed = {}, !.unavailable = {}]

\* SyncAll after a successful fetchRepositories
DiscoverAll ==
    /\ alive /\ pass.phase = "discover" /\ pass.kind = "full"
    /\ StartQueue(terraformRepos, marker, {}, [NoProgress EXCEPT !.total = Len(terraformRepos)])
    /\ UNCHANGED <<db, marker, jobs, alive, reply, last, faults>>

SkipAlways(d, r, seen) == ModuleNamed(d, Repo(r).name) # {}

\* the comparison of SyncUpdates: the stored marker equals the upstream one
UpToDate(d, r, seen) ==
    /\ ModuleNamed(d, Repo(r).name) # {}
    /\ (CHOOSE m \in ModuleNamed(d, Repo(r).name) : TRUE).lastUpdated = seen[r]

\* SyncUpdates after a successful fetchRepositories: the comparison loop
DiscoverUpdates ==
    /\ alive /\ pass.phase = "discover" /\ pass.kind = "incremental"
    /\ LET repos == terraformRepos
           Skip(r) == UpToDate(db, r, marker)
           Queue(r) == ~Skip(r)
           skips == SelectSeq(repos, Skip)
       IN  StartQueue(SelectSeq(repos, Queue), marker, {repos[i] : i \in {k \in 1..Len(repos) : Skip(repos[k])}},
                      [NoProgress EXCEPT !.total = Len(repos), !.skipped = Len(skips),
                                         !.processed = Len(skips),
                                         !.current = repos[Len(repos)]])
    /\ UNCHANGED <<db, marker, jobs, alive, reply, last, faults>>

\* a variant in which the repository stays in the queue for the next worker
DispatchKeepsQueue(w) ==
    /\ alive /\ pass.phase = "run" /\ pass.queue # <<>>
    /\ workers[w].pc = "idle"
    /\ workers' = [workers EXCEPT ![w] = [OffWorker EXCEPT !.pc = "meta",
                                                            !.repo = Head(pass.queue)]]
    /\ progress' = [progress EXCEPT !.current = Head(pass.queue)]
    /\ UNCHANGED <<db, marker, jobs, pass, alive, reply, last, lastPass, faults>>

\* a worker (or the inline loop) takes the next repository of the queue.  The workers
\* run the same code: of the idle ones, the lowest-numbered stands for whichever receives.
Dispatch(w) ==
    /\ alive /\ pass.phase = "run" /\ pass.queue # <<>>
    /\ workers[w].pc = "idle"
    /\ \A v \in Workers : v < w => workers[v].pc # "idle"
    /\ workers' = [workers EXCEPT ![w] = [OffWorker EXCEPT !.pc = "meta",
                                                            !.repo = Head(pass.queue)]]
    /\ pass' = [pass EXCEPT !.queue = Tail(@)]
    /\ progress' = [progress EXCEPT !.current = Head(pass.queue)]
    /\ UNCHANGED <<db, marker, jobs, alive, reply, last, lastPass, faults>>

\* the queue is drained and every worker is done: processRepoQueue returns, and
\* SyncAll / SyncUpdates returns the progress record
PassReturns ==
    /\ alive
    /\ \/ pass.phase = "return"
       \/ /\ pass.phase = "run" /\ pass.queue = <<>>
          /\ \A w \in Workers : workers[w].pc \in {"off", "idle"}
    /\ ReturnProgress
    /\ EndPass("ok", TRUE)
    /\ UNCHANGED <<db, marker, progress, alive, last, faults>>

(***************************************************************************)
(* syncRepository, one action per step, run by worker w for its repository *)
(***************************************************************************)

Advance(w, from, to, newdb) ==
    /\ alive /\ workers[w].pc = from
    /\ db' = newdb
    /\ workers' = [workers EXCEPT ![w].pc = to, ![w].steps = Append(@, from)]
    /\ UNCHANGED <<marker, jobs, pass, progress, alive, reply, last, lastPass, faults>>

FailKeepsGoing(w, from, msg, newdb) ==
    /\ alive /\ workers[w].pc = from
    /\ faults < MaxFaults
    /\ faults' = faults + 1
    /\ db' = newdb
    /\ workers' = [workers EXCEPT ![w].pc = IF from = "archive" THEN "tags" ELSE "report",
                                  ![w].err = msg, ![w].steps = Append(@, from)]
    /\ UNCHANGED <<marker, jobs, pass, progress, alive, reply, last, lastPass>>

\* syncRepository returns an error from step `from`, having made the store newdb
Fail(w, from, msg, newdb) ==
    /\ alive /\ workers[w].pc = from
    /\ faults < MaxFaults
    /\ faults' = faults + 1
    /\ db' = newdb
    /\ workers' = [workers EXCEPT ![w].pc = "report", ![w].err = msg,
                                  ![w].steps = Append(@, from)]
    /\ UNCHANGED <<marker, jobs, pass, progress, alive, reply, last, lastPass>>

Me(w) == RepoOf(workers[w].repo, pass.seen)

StepMeta(w) ==
    /\ alive /\ workers[w].pc = "meta"
    /\ db' = insertModuleMetadata(db, Me(w))
    /\ workers' = [workers EXCEPT ![w].pc = "clear", ![w].steps = Append(@, "meta"),
                                  ![w].mid = IDOf(db', Me(w).name)]
    /\ UNCHANGED <<marker, jobs, pass, progress, alive, reply, last, lastPass, faults>>

\* InsertModule returns an error: syncRepository returns at once
StepMetaFails(w) == Fail(w, "meta", "failed to insert module", db)

StepClear(w) ==
    Advance(w, "clear", "readme", clearExistingModuleData(db, workers[w].mid, Me(w).name))

\* fetchReadme succeeds for a repository that has a README
StepReadme(w) ==
    /\ HasReadme(workers[w].repo)
    /\ Advance(w, "readme", "archive", syncReadme(db, Me(w), readmeMd))

\* fetchReadme fails: a warning, nothing is written
StepReadmeFails(w) ==
    /\ ~HasReadme(workers[w].repo)
    /\ Advance(w, "readme", "archive", db)

Ingest(w) ==
    LET entries == Archive(workers[w].repo)
    IN  processArchiveEntries(db, workers[w].mid, Me(w), entries, Len(entries))

\* syncFiles has returned the ingestion state st
Ingested(w, st) ==
    /\ db' = st.db
    /\ workers' = [workers EXCEPT ![w].pc = "index", ![w].steps = Append(@, "archive"),
                                  ![w].subs = st.order,
                                  ![w].examples = st.examples]

StepArchive(w) ==
    /\ alive /\ workers[w].pc = "archive"
    /\ Ingested(w, Ingest(w))
    /\ UNCHANGED <<marker, jobs, pass, progress, alive, reply, last, lastPass, faults>>

\* getArchive answers 403, 404 or 409: handleUnavailableRepo, syncRepository returns nil
StepArchiveUnavailable(w) ==
    /\ alive /\ workers[w].pc = "archive"
    /\ faults < MaxFaults
    /\ faults' = faults + 1
    /\ db' = handleUnavailableRepo(db, workers[w].mid)
    /\ workers' = [workers EXCEPT ![w].pc = "report", ![w].unavailable = TRUE,
                                  ![w].steps = Append(@, "archive")]
    /\ UNCHANGED <<marker, jobs, pass, progress, alive, reply, last, lastPass>>

\* the download fails (n = 0) or reading the archive fails after n entries
StepArchiveFails(w, n) ==
    /\ n < Len(Archive(workers[w].repo))
    /\ Fail(w, "archive", "failed to sync files",
            processArchiveEntries(db, workers[w].mid, Me(w), Archive(workers[w].repo), n).db)

\* the has_examples flag is set once the files are parsed
markExamples(d1, w) ==
    IF workers[w].examples THEN SetModuleHasExamples(d1, workers[w].mid, TRUE) ELSE d1

StepIndex(w) ==
    Advance(w, "index", "tags",
            markExamples(parseModulesAndSubmodules(db, workers[w].mid, workers[w].subs), w))

StepTags(w) ==
    Advance(w, "tags", "aliases",
         tagModules(db, <<workers[w].mid>> \o workers[w].subs))

StepAliases(w) ==
    Advance(w, "aliases", "report",
         aliasModules(db, <<workers[w].mid>> \o workers[w].subs))


\* the pipeline panics in worker w while it parses the files
Panic(w) ==
    /\ alive /\ workers[w].pc = "index"
    /\ faults < MaxFaults
    /\ faults' = faults + 1
    /\ last' = [last EXCEPT ![workers[w].repo] = [ok |-> FALSE, marker |-> 0, view |-> << >>]]
    /\ IF pass.inline /\ pass.kind = "full"
       THEN \* the goroutine of startSyncJob recovers: the job fails, the pass is over
            /\ jobs' = completeJobWithError(jobs, pass.job, "panic")
            /\ EndPass("panic", TRUE)
            /\ UNCHANGED <<db, marker, progress, alive, reply>>
       ELSE \* a worker goroutine, or the handler itself: nothing recovers, the process dies
            /\ alive' = FALSE
            /\ workers' = [workers EXCEPT ![w].pc = "panicked"]
            /\ UNCHANGED <<db, marker, jobs, pass, progress, reply, lastPass>>

\* the derived rows of one module, without the module id
RowsOfModule(d, mid) ==
    LET mine == {r \in BagToSet(d.rows) : r.mid = mid}
        OfFile(f) == f.mid = mid
        OfBlock(b) == b.mid = mid
        fs == SelectSeq(d.files, OfFile)
        bs == SelectSeq(d.blocks, OfBlock)
    IN  [files   |-> [i \in 1..Len(fs) |-> [path |-> fs[i].path, name |-> fs[i].name,
                                             type |-> fs[i].type, content |-> fs[i].content]],
         rows    |-> {<<r.t, r.k, d.rows[r]>> : r \in mine},
         blocks  |-> [i \in 1..Len(bs) |-> [path |-> bs[i].path, btype |-> bs[i].btype,
                                             label |-> bs[i].label, start |-> bs[i].start,
                                             end |-> bs[i].end, attrs |-> bs[i].attrs]],
         tags    |-> {<<x.s, x.w>> : x \in {y \in d.tags : y.mid = mid}},
         aliases |-> {<<x.s, x.w>> : x \in {y \in d.aliases : y.mid = mid}}]

ModulesOfRepo(d, r) ==
    {m \in d.modules : m.name = Repo(r).name
                       \/ HasPrefix(m.name, Repo(r).name \o <<"/", "/">>)}

\* the modules of a repository by name, each with its derived rows
RepoView(d, r) ==
    {[name |-> m.name, derived |-> RowsOfModule(d, m.id)] : m \in ModulesOfRepo(d, r)}

\* handleRepo after syncRepository has returned: the progress record, under its mutex
Report(w) ==
    /\ alive /\ workers[w].pc = "report"
    /\ LET r == workers[w].repo
           failed == workers[w].err # ""
       IN  /\ progress' = [progress EXCEPT
                 !.errors = IF failed THEN Append(@, <<r, workers[w].err>>) ELSE @,
                 !.processed = @ + 1,
                 !.current = r,
                 !.updated = IF ~failed /\ pass.kind = "incremental" THEN Append(@, r) ELSE @]
           /\ last' = [last EXCEPT ![r] =
                 [ok |-> ~failed /\ ~workers[w].unavailable, marker |-> pass.seen[r],
                  view |-> IF failed \/ workers[w].unavailable THEN << >>
                           ELSE RepoView(db, r)]]
           /\ lastPass' = [lastPass EXCEPT
                 !.failed = IF failed THEN @ \cup {r} ELSE @,
                 !.unavailable = IF workers[w].unavailable THEN @ \cup {r} ELSE @]
    /\ workers' = [workers EXCEPT ![w] = [OffWorker EXCEPT !.pc = "idle"]]
    /\ UNCHANGED <<db, marker, jobs, pass, alive, reply, faults>>

Next ==
    \/ \E r \in Syncable : UpstreamPush(r)
    \/ handleSyncModules
    \/ handleSyncUpdatesModules
    \/ \E j \in 1..MaxPasses : handleSyncStatus(j)
    \/ DiscoveryFails
    \/ DiscoverAll
    \/ DiscoverUpdates
    \/ PassReturns
    \/ \E w \in Workers :
         \/ Dispatch(w)
         \/ StepMeta(w)
         \/ StepMetaFails(w)
         \/ StepClear(w)
         \/ StepReadme(w)
         \/ StepReadmeFails(w)
         \/ StepArchive(w)
         \/ StepArchiveUnavailable(w)
         \/ \E n \in FailAfter : StepArchiveFails(w, n)
         \/ StepIndex(w)
         \/ StepTags(w)
         \/ StepAliases(w)
         \/ Panic(w)
         \/ Report(w)

Spec == Init /\ [][Next]_vars


(***************************************************************************)
(* Properties of the sync controller                                       *)
(***************************************************************************)

ModuleIDs(d) == {m.id : m \in d.modules}

\* every derived row belongs to a module of the store
NoOrphanRows(d) ==
    /\ \A i \in 1..Len(d.files) : d.files[i].mid \in ModuleIDs(d)
    /\ \A r \in BagToSet(d.rows) : r.mid \in ModuleIDs(d)
    /\ \A i \in 1..Len(d.blocks) : d.blocks[i].mid \in ModuleIDs(d)
    /\ \A x \in d.tags \cup d.aliases : x.mid \in ModuleIDs(d)

\* worker w has just run the whole pipeline for a repository whose previous pipeline
\* also ran to the end, on the same upstream marker
SecondRun(w) ==
    /\ workers[w].pc = "report" /\ workers[w].err = "" /\ ~workers[w].unavailable
    /\ last[workers[w].repo].ok
    /\ last[workers[w].repo].marker = pass.seen[workers[w].repo]

Handled ==
    {pass.queue[i] : i \in 1..Len(pass.queue)}
    \cup {workers[w].repo : w \in {v \in Workers : workers[v].pc \notin {"off", "idle"}}}
    \cup {progress.updated[i] : i \in 1..Len(progress.updated)}
    \cup {progress.errors[i][1] : i \in 1..Len(progress.errors)}

\* a module row and everything stored for that module
FullView(d, r) ==
    {[row |-> m, derived |-> RowsOfModule(d, m.id)] : m \in ModulesOfRepo(d, r)}

\* C2: in an incremental pass, a discovered repository whose upstream marker equals the
\* marker stored for the module of its name is skipped: none of its rows, metadata or
\* derived, changes during the pass, and the skipped count is the number of such
\* repositories; a repository with a different marker or without a stored module is
\* put in the processing queue.
C2_SkipUnchanged ==
    (pass.kind = "incremental" /\ pass.phase \in {"run", "return"}) =>
       /\ progress.skipped = Cardinality(pass.skipped)
       /\ \A i \in 1..Len(terraformRepos) :
             LET r == terraformRepos[i]
                 stored == ModuleNamed(pass.snap, Repo(r).name)
             IN  IF \E m \in stored : m.lastUpdated = pass.seen[r]
                 THEN /\ r \in pass.skipped /\ r \notin Handled
                      /\ FullView(db, r) = FullView(pass.snap, r)
                 ELSE r \notin pass.skipped /\ r \in Handled

C2_Witness ==
    /\ pass.kind = "incremental" /\ pass.skipped = {"sa"}
    /\ \E w \in Workers : workers[w].pc = "report" /\ workers[w].repo = "kv"
    /\ progress.skipped = 1

\* C3: while a sync pass, full or incremental, is in progress, a job is registered for
\* it and its id has been handed to the caller.
C3_EveryPassHasJob ==
    pass.kind \in {"full", "incremental"} =>
       pass.job \in DOMAIN jobs /\ reply.job = pass.job

\* C4: a worker whose pipeline has panicked leaves the process running.
C4_PanicRecovered ==
    \A w \in Workers : workers[w].pc = "panicked" => alive


\* the last pass has returned its progress record and no other has started
PassOver == pass.kind = "none" /\ lastPass.result = "ok"

ErrorRepos == {progress.errors[i][1] : i \in 1..Len(progress.errors)}

\* C5: a pass returns an error only when discovery failed.  A pipeline that fails in
\* the metadata upsert or in archive ingestion runs none of its later steps and adds
\* one string to the error list, and the pass still processes every repository.
C5_FailureIsolated ==
    /\ lastPass.result = "error" => ~lastPass.discovered
    /\ \A w \in Workers :
          (workers[w].pc = "report" /\ workers[w].err # "") =>
             \/ workers[w].err = "failed to insert module" /\ workers[w].steps = <<"meta">>
             \/ /\ workers[w].err = "failed to sync files"
                /\ workers[w].steps = <<"meta", "clear", "readme", "archive">>
    /\ PassOver =>
          /\ Len(progress.errors) = Cardinality(lastPass.failed)
          /\ ErrorRepos = lastPass.failed
          /\ progress.processed = progress.total

C5_Witness ==
    /\ PassOver /\ progress.total = 2
    /\ lastPass.failed = {"kv"} /\ progress.errors = << <<"kv", "failed to sync files">> >>

Statuses == {"running", "completed", "failed"}

C7_Inv ==
    \A j \in DOMAIN jobs :
       /\ jobs[j].status \in Statuses
       /\ jobs[j].completed <=> jobs[j].status # "running"
       /\ jobs[j].error # "" => jobs[j].status = "failed"

C7_Step ==
    /\ \A j \in DOMAIN jobs :
          /\ j \in DOMAIN jobs'
          /\ jobs'[j].status # jobs[j].status =>
                jobs[j].status = "running" /\ jobs'[j].status \in {"completed", "failed"}
    /\ \A j \in DOMAIN jobs' \ DOMAIN jobs : jobs'[j].status = "running"

\* the steps the server takes by itself once a full pass has been started
PassStep ==
    \/ DiscoveryFails
    \/ DiscoverAll
    \/ PassReturns
    \/ \E w \in Workers :
         \/ Dispatch(w) \/ StepMeta(w) \/ StepMetaFails(w) \/ StepClear(w)
         \/ StepReadme(w) \/ StepReadmeFails(w) \/ StepArchive(w)
         \/ StepArchiveUnavailable(w) \/ (\E n \in FailAfter : StepArchiveFails(w, n))
         \/ StepIndex(w) \/ StepTags(w) \/ StepAliases(w) \/ Panic(w) \/ Report(w)

JobRunning(j) == IF j \in DOMAIN jobs THEN jobs[j].status = "running" ELSE FALSE

JobEnded(j) == IF j \in DOMAIN jobs THEN jobs[j].status # "running" ELSE FALSE

\* a client that starts full syncs and polls them: the only passes that have a job
NextJobs ==
    \/ handleSyncModules
    \/ \E j \in 1..MaxPasses : handleSyncStatus(j)
    \/ PassStep

\* the goroutines of a pass keep being scheduled: no step that can be taken without a
\* failure stays enabled for ever, and no worker stays for ever in the download, the
\* indexing or the derivation of tags and aliases
Fairness ==
    /\ WF_vars(DiscoverAll)
    /\ WF_vars(PassReturns)
    /\ \A w \in Workers :
          /\ WF_vars(Dispatch(w)) /\ WF_vars(StepMeta(w)) /\ WF_vars(StepClear(w))
          /\ WF_vars(StepReadme(w)) /\ WF_vars(StepReadmeFails(w))
          /\ WF_vars(Report(w))
          /\ \A at \in {"archive", "index", "tags", "aliases"} :
                []<>(~alive \/ workers[w].pc # at)

SpecFair == Init /\ [][NextJobs]_vars /\ Fairness

\* C7: every job of the registry is running, completed or failed; it is created
\* running, changes status at most once, to completed or failed, and then keeps it; it
\* has a completion time exactly when it is not running and an error text only when it
\* has failed; and a running job whose process lives on ends completed or failed.
C7_JobLifecycle ==
    /\ []C7_Inv
    /\ [][C7_Step]_vars
    /\ \A j \in 1..MaxPasses : JobRunning(j) ~> (JobEnded(j) \/ ~alive)

C7_Witness ==
    /\ Len(jobs) = 2
    /\ jobs[1].status = "failed" /\ jobs[1].completed /\ jobs[1].error # ""
    /\ jobs[2].status = "completed" /\ jobs[2].completed /\ jobs[2].error = ""


(***************************************************************************)
(* Module resolution (resolveModule and the alias queries of the store)    *)
(***************************************************************************)

RECURSIVE Like(_, _)
\* SQLite's LIKE: % matches any run of characters, _ any single one, letters match
\* without regard to case
Like(s, pat) ==
    IF pat = <<>> THEN s = <<>>
    ELSE IF pat[1] = "%"
         THEN \E k \in 0..Len(s) : Like(SubSeq(s, k + 1, Len(s)), Tail(pat))
         ELSE /\ s # <<>>
              /\ (pat[1] = "_" \/ LowerChar(pat[1]) = LowerChar(s[1]))
              /\ Like(Tail(s), Tail(pat))

\* InsertModuleAlias: the alias is stored in lower case; upsert on (module, alias)
InsertModuleAlias(d, moduleID, alias, weight) ==
    [d EXCEPT !.aliases = {x \in @ : ~(x.mid = moduleID /\ x.s = ToLower(alias))}
                           \cup {[mid |-> moduleID, s |-> ToLower(alias), w |-> weight]}]

IsSubmodule(name) == Contains(name, <<"/", "/">>)

\* ORDER BY weight DESC, (name holds //) ASC, name ASC: c comes before d
Before(c, d) ==
    \/ c.w > d.w
    \/ c.w = d.w /\ ~IsSubmodule(c.m.name) /\ IsSubmodule(d.m.name)
    \/ c.w = d.w /\ IsSubmodule(c.m.name) = IsSubmodule(d.m.name) /\ StrLess(c.m.name, d.m.name)

\* LIMIT 1 of the ordered candidates [m, w]
First(cands) ==
    IF cands = {} THEN [found |-> FALSE, id |-> 0]
    ELSE [found |-> TRUE,
          id |-> (CHOOSE c \in cands : \A d \in cands : d = c \/ Before(c, d)).m.id]

\* the rows of module_aliases JOIN modules
AliasRows(d) ==
    {[m |-> m, s |-> a.s, w |-> a.w] : <<a, m>> \in
        {p \in d.aliases \X d.modules : p[1].mid = p[2].id}}

ResolveModuleByAlias(d, alias) ==
    First({[m |-> r.m, w |-> r.w] : r \in {x \in AliasRows(d) : x.s = ToLower(alias)}})

ResolveModuleByAliasPrefix(d, prefix) ==
    LET like == ToLower(prefix) \o <<"%">>
        hits == {x \in AliasRows(d) : Like(x.s, like)}
        MaxW(m) == CHOOSE w \in {x.w : x \in {y \in hits : y.m = m}} :
                      \A x \in hits : x.m = m => x.w <= w
    IN  First({[m |-> m, w |-> MaxW(m)] : m \in {x.m : x \in hits}})

GetModule(d, name) ==
    IF ModuleNamed(d, name) = {} THEN [found |-> FALSE, id |-> 0]
    ELSE [found |-> TRUE, id |-> IDOf(d, name)]

\* resolveModule; fts is the id of the first row of SearchModules(name, 1), 0 if none
resolveModule(d, nameOrAlias, fts) ==
    IF GetModule(d, nameOrAlias).found THEN GetModule(d, nameOrAlias)
    ELSE IF ResolveModuleByAlias(d, nameOrAlias).found
         THEN ResolveModuleByAlias(d, nameOrAlias)
    ELSE IF ResolveModuleByAliasPrefix(d, nameOrAlias).found
         THEN ResolveModuleByAliasPrefix(d, nameOrAlias)
    ELSE IF fts # 0 THEN [found |-> TRUE, id |-> fts]
    ELSE [found |-> FALSE, id |-> 0]

MaxAliases == 3

q_ks == <<"k", "s">>

q_kv == <<"k", "v">>

q_KV == <<"K", "V">>

q_k == <<"k">>

q_k_ == <<"k", "_">>

q_zz == <<"z", "z">>

AliasNames == {q_kv, q_ks, q_KV}

Queries == {n_kv, q_kv, q_KV, q_k, q_k_, q_zz}

\* a store holding two root modules and a submodule, without aliases yet
ResolveInit ==
    /\ InitRest
    /\ db = InsertModule(InsertModule(InsertModule(EmptyDB,
                [name |-> n_kv, lastUpdated |-> 1, readme |-> <<>>, hasExamples |-> FALSE]),
                [name |-> n_sa, lastUpdated |-> 1, readme |-> <<>>, hasExamples |-> FALSE]),
                [name |-> SubmoduleName(n_kv, <<"s">>), lastUpdated |-> 1,
                 readme |-> <<>>, hasExamples |-> FALSE])
    /\ reply = [tool |-> "", input |-> <<>>, fts |-> 0, out |-> [found |-> FALSE, id |-> 0]]

AddAlias(mid, a, w) ==
    /\ Cardinality(db.aliases) < MaxAliases
    /\ db' = InsertModuleAlias(db, mid, a, w)
    /\ reply' = [reply EXCEPT !.tool = ""]
    /\ UNCHANGED rest

\* a tool call resolves a name; the full-text engine answers fts
Resolve(input, fts) ==
    /\ reply' = [tool |-> "resolve", input |-> input, fts |-> fts,
                 out |-> resolveModule(db, input, fts)]
    /\ UNCHANGED <<db, rest>>

ResolveNext ==
    \/ \E mid \in 1..3, a \in AliasNames, w \in 1..2 : AddAlias(mid, a, w)
    \/ \E input \in Queries, fts \in 0..3 : Resolve(input, fts)

SpecResolve == ResolveInit /\ [][ResolveNext]_vars

\* the module the tiers of the claim select: exact name, exact alias, alias prefix,
\* first full-text hit; in the alias tiers highest weight, then a module that is no
\* submodule, then the smallest name
TierAnswer(d, name, fts) ==
    LET key == ToLower(name)
        exact == {x \in AliasRows(d) : x.s = key}
        pre == {x \in AliasRows(d) : HasPrefix(x.s, key)}
        Group(hits) == {[m |-> m, w |-> w] : <<m, w>> \in
                          {p \in {x.m : x \in hits} \X {x.w : x \in hits} :
                             /\ \E x \in hits : x.m = p[1] /\ x.w = p[2]
                             /\ \A x \in hits : x.m = p[1] => x.w <= p[2]}}
        Top(cands) == CHOOSE c \in cands : \A o \in cands \ {c} :
                         \/ c.w > o.w
                         \/ c.w = o.w /\ ~IsSubmodule(c.m.name) /\ IsSubmodule(o.m.name)
                         \/ /\ c.w = o.w /\ IsSubmodule(c.m.name) = IsSubmodule(o.m.name)
                            /\ StrLess(c.m.name, o.m.name)
    IN  IF \E m \in d.modules : m.name = name
        THEN [found |-> TRUE, id |-> (CHOOSE m \in d.modules : m.name = name).id]
        ELSE IF exact # {} THEN [found |-> TRUE, id |-> Top(Group(exact)).m.id]
        ELSE IF pre # {} THEN [found |-> TRUE, id |-> Top(Group(pre)).m.id]
        ELSE IF fts # 0 THEN [found |-> TRUE, id |-> fts]
        ELSE [found |-> FALSE, id |-> 0]

\* C8: resolve returns the module of the first tier that yields one (exact name, exact
\* alias, alias prefix, first full-text hit) and NotFound when none does; in the alias
\* tiers the highest weight wins, then a module that is no submodule, then the
\* lexicographically smallest name.
C8_ResolveTiers ==
    reply.tool = "resolve" => reply.out = TierAnswer(db, reply.input, reply.fts)

\* the same for the names that hold no LIKE wildcard
C8_ResolveTiersPlainNames ==
    (reply.tool = "resolve" /\ ~Contains(reply.input, <<"_">>)
       /\ ~Contains(reply.input, <<"%">>)) =>
       reply.out = TierAnswer(db, reply.input, reply.fts)


(***************************************************************************)
(* Structural pattern search (pkg/mcp/server.go, internal/database/db.go)  *)
(***************************************************************************)

s_has == <<"h", "a", "s", ":">>

IndexByte(s, c) == Index(s, <<c>>)

NoArg == [want |-> <<>>, ok |-> FALSE]

quotedWant(want) == [want |-> want, ok |-> want # <<>>]

quotedTo(tail, first, second) ==
    IF second < 0 THEN NoArg
    ELSE quotedWant(TrimSpace(Slice(tail, first + 1, first + 1 + second)))

quotedFrom(tail, first) ==
    IF first < 0 THEN NoArg
    ELSE quotedTo(tail, first, IndexByte(Slice(tail, first + 1, Len(tail)), "\""))

quotedIn(tail) == quotedFrom(tail, IndexByte(tail, "\""))

\* getQuotedArg: the text between the first two quotes after the keyword and a space
getQuotedArg(pattern, keyword) ==
    IF ~HasPrefix(pattern, keyword \o <<" ">>) THEN NoArg
    ELSE quotedIn(Slice(pattern, Len(keyword) + 1, Len(pattern)))

hasTokens(toks) == [k \in 1..Len(toks) |-> TrimPrefix(toks[k], s_has)]

\* parseHasFilters: the has:<path> tokens of the pattern, in order
parseHasFilters(pattern) ==
    LET IsHas(t) == HasPrefix(t, s_has) IN hasTokens(SelectSeq(Fields(pattern), IsHas))

shapeOf(trimmed, r, y) ==
    IF r.ok THEN [kind |-> s_resource, want |-> r.want, prefix |-> TRUE]
    ELSE IF y.ok THEN [kind |-> s_dynamic, want |-> y.want, prefix |-> FALSE]
    ELSE IF HasPrefix(trimmed, s_lifecycle)
         THEN [kind |-> s_lifecycle, want |-> <<>>, prefix |-> FALSE]
    ELSE [kind |-> <<>>, want |-> <<>>, prefix |-> FALSE]

\* the shape both search paths read off the trimmed pattern, in the same order
PatternShape(trimmed) ==
    shapeOf(trimmed, getQuotedArg(trimmed, s_resource), getQuotedArg(trimmed, s_dynamic))

\* QueryHCLBlocks: the rows of hcl_blocks by type and label, in row order; an empty
\* label is stored as NULL, which neither LIKE nor = selects
QueryHCLBlocks(d, blockType, typeLabel, prefix) ==
    LET Sel(b) == IF blockType = s_lifecycle THEN b.btype = s_lifecycle
                  ELSE IF prefix
                       THEN /\ b.btype = blockType /\ b.label # <<>>
                            /\ Like(b.label, typeLabel \o <<"%">>)
                       ELSE b.btype = blockType /\ b.label # <<>> /\ b.label = typeLabel
    IN  SelectSeq(d.blocks, Sel)

\* GetFile: the file of the module of that name at that path
GetFile(d, moduleName, filePath) ==
    LET Of(f) == /\ f.path = filePath
                 /\ \E m \in d.modules : m.name = moduleName /\ m.id = f.mid
    IN  SelectSeq(d.files, Of)

clampEnd(start, e) == IF e < start THEN start ELSE e

\* the clamped byte range of the content, trimmed
sliceBlock(content, start, end) ==
    TrimSpace(Slice(content, start,
                    clampEnd(start, IF end > Len(content) THEN Len(content) ELSE end)))

\* the attribute paths of a row, one per line
attrSet(attrs) == Range(Split(attrs, s_nl)) \ {<<>>}

indexedFile(moduleName, fs, b, kind) ==
    IF fs = <<>> THEN <<>>
    ELSE <<[module |-> moduleName, file |-> fs[1].name,
            code |-> sliceBlock(fs[1].content, b.start, b.end), btype |-> kind]>>

indexedModule(d, moduleName, b, kind) ==
    indexedFile(moduleName, GetFile(d, moduleName, b.path), b, kind)

\* one row of the query: file type filter, has filters, module and file lookups
indexedBlock(d, b, kind, hasFilters, fileType) ==
    IF fileType # <<>> /\ ~HasSuffix(b.path, s_slash \o fileType)
       /\ ~HasSuffix(b.path, fileType) THEN <<>>
    ELSE IF \E k \in 1..Len(hasFilters) : hasFilters[k] \notin attrSet(b.attrs) THEN <<>>
    ELSE IF ModuleByID(d, b.mid) = {} THEN <<>>
    ELSE indexedModule(d, (CHOOSE m \in ModuleByID(d, b.mid) : TRUE).name, b, kind)

indexedShape(d, shape, hasFilters, fileType) ==
    LET One(b) == indexedBlock(d, b, shape.kind, hasFilters, fileType)
    IN  IF shape.kind = <<>> THEN <<>>
        ELSE FlatMap(QueryHCLBlocks(d, shape.kind, shape.want, shape.prefix), One)

indexedTrimmed(d, trimmed, fileType) ==
    IF trimmed = <<>> THEN <<>>
    ELSE indexedShape(d, PatternShape(trimmed), parseHasFilters(trimmed), fileType)

findPatternMatchesIndexed(d, pattern, fileType) ==
    indexedTrimmed(d, TrimSpace(pattern), fileType)

RECURSIVE hasPathRec(_, _)
hasPathRec(bdy, parts) ==
    IF parts = <<>> THEN TRUE
    ELSE \/ Len(parts) = 1 /\ HasAttr(bdy, parts[1])
         \/ \E k \in 1..Len(bdy.blocks) :
               bdy.blocks[k].type = parts[1] /\ hasPathRec(bdy.blocks[k].body, Tail(parts))

hasPath(bdy, path) == hasPathRec(bdy, Split(path, s_dot))

blockSatisfies(bdy, hasFilters) ==
    \A k \in 1..Len(hasFilters) : hasPath(bdy, hasFilters[k])

RECURSIVE walkAll(_)
\* the blocks of a body at every depth, each before the blocks nested in it
walkAll(bdy) ==
    LET One(bl) == <<bl>> \o walkAll(bl.body) IN FlatMap(bdy.blocks, One)

astHit(content, bl, kind) ==
    [code |-> sliceBlock(content, bl.start, bl.end), btype |-> kind]

\* the walk of a parsed body for the shape of the pattern
astBody(content, bdy, shape, hasFilters) ==
    LET Res(bl) == IF /\ bl.type = s_resource /\ Len(bl.labels) >= 2
                      /\ HasPrefix(bl.labels[1], shape.want)
                      /\ blockSatisfies(bl.body, hasFilters)
                   THEN <<astHit(content, bl, shape.kind)>> ELSE <<>>
        Dyn(bl) == IF /\ bl.type = s_dynamic /\ Len(bl.labels) > 0
                      /\ bl.labels[1] = shape.want
                      /\ blockSatisfies(bl.body, hasFilters)
                   THEN <<astHit(content, bl, shape.kind)>> ELSE <<>>
        Lif(bl) == IF bl.type = s_lifecycle /\ blockSatisfies(bl.body, hasFilters)
                   THEN <<astHit(content, bl, shape.kind)>> ELSE <<>>
    IN  IF shape.kind = s_resource THEN FlatMap(bdy.blocks, Res)
        ELSE IF shape.kind = s_dynamic THEN FlatMap(walkAll(bdy), Dyn)
        ELSE IF shape.kind = s_lifecycle THEN FlatMap(walkAll(bdy), Lif)
        ELSE <<>>

astParsed(content, parsed, shape, hasFilters) ==
    IF ~parsed.ok THEN <<>> ELSE astBody(content, parsed.body, shape, hasFilters)

astTrimmed(content, trimmed) ==
    IF trimmed = <<>> THEN <<>>
    ELSE astParsed(content, parseHCLBody(content), PatternShape(trimmed),
                   parseHasFilters(trimmed))

extractASTPatternMatches(content, pattern) == astTrimmed(content, TrimSpace(pattern))

RECURSIVE BlockEndFrom(_, _, _, _)
\* the loop of findBlockEnd from byte i on
BlockEndFrom(content, i, braceCount, inBlock) ==
    IF i >= Len(content) THEN -1
    ELSE LET char == content[i + 1] IN
      IF char = "{" THEN BlockEndFrom(content, i + 1, braceCount + 1, TRUE)
      ELSE IF char = "}" THEN
        IF inBlock /\ braceCount - 1 = 0
        THEN LET IsNl(x) == x = "\n" IN FirstFrom(content, i + 2, IsNl) - 1
        ELSE BlockEndFrom(content, i + 1, braceCount - 1, inBlock)
      ELSE BlockEndFrom(content, i + 1, braceCount, inBlock)

blockEndOr(e, startPos) == IF e < 0 THEN startPos ELSE e

\* findBlockEnd: the end of the line that closes the first brace pair opened at or
\* after startPos, or startPos when there is none
findBlockEnd(content, startPos) ==
    blockEndOr(BlockEndFrom(content, startPos, 0, FALSE), startPos)

RECURSIVE LineStart(_, _)
LineStart(content, i) ==
    IF i > 0 /\ content[i + 1] # "\n" THEN LineStart(content, i - 1) ELSE i

literalFound(content, startIdx, endIdx, matches) ==
    IF endIdx > startIdx
    THEN Append(matches, TrimSpace(Slice(content, startIdx, endIdx)))
    ELSE matches

RECURSIVE LiteralFrom(_, _, _, _)
literalNext(content, pattern, next, found) ==
    IF next >= Len(content) THEN found ELSE LiteralFrom(content, pattern, next, found)

literalAt(content, pattern, actualIdx, matches) ==
    literalNext(content, pattern, actualIdx + Len(pattern),
                literalFound(content, LineStart(content, actualIdx),
                             findBlockEnd(content, actualIdx), matches))

literalIdx(content, pattern, offset, idx, matches) ==
    IF idx = -1 THEN matches ELSE literalAt(content, pattern, offset + idx, matches)

\* the loop of extractPatternMatches with the search resuming at offset
LiteralFrom(content, pattern, offset, matches) ==
    literalIdx(content, pattern, offset,
               Index(Slice(content, offset, Len(content)), pattern), matches)

\* extractPatternMatches: for every occurrence of the pattern, the text from the
\* start of its line to the end of the next brace pair
extractPatternMatches(content, pattern) == LiteralFrom(content, pattern, 0, <<>>)


RECURSIVE ListModules(_)
\* ListModules: the modules ordered by name
ListModules(ms) ==
    IF ms = {} THEN <<>>
    ELSE LET m == CHOOSE x \in ms : \A y \in ms \ {x} : StrLess(x.name, y.name)
         IN  <<m>> \o ListModules(ms \ {m})

literalRecords(lit) == [k \in 1..Len(lit) |-> [code |-> lit[k], btype |-> <<>>]]

\* the blocks of a fresh parse and, when there are none, the literal occurrences
astOrLiteral(ast, content, pattern) ==
    IF ast # <<>> THEN ast ELSE literalRecords(extractPatternMatches(content, pattern))

\* the matches of one file, numbered when there are several
displayMatches(module, file, matches) ==
    [i \in 1..Len(matches) |->
       [module |-> IF Len(matches) > 1
                   THEN module.name \o <<" ", "#", ToString(i)>>
                   ELSE module.name,
        file |-> file.name, code |-> matches[i].code, btype |-> matches[i].btype]]

fileMatches(module, file, pattern, fileType) ==
    IF fileType # <<>> /\ file.name # fileType THEN <<>>
    ELSE IF ~HasSuffix(file.name, s_tf) THEN <<>>
    ELSE displayMatches(module, file,
                        astOrLiteral(extractASTPatternMatches(file.content, pattern),
                                     file.content, pattern))

filesMatches(module, files, pattern, fileType) ==
    Concat([k \in 1..Len(files) |-> fileMatches(module, files[k], pattern, fileType)])

indexedOr(indexed, d, modules, pattern, fileType) ==
    LET OfModule(module) ==
          filesMatches(module, GetModuleFiles(d, module.id), pattern, fileType)
    IN  IF indexed # <<>> THEN indexed ELSE FlatMap(modules, OfModule)

\* findPatternMatches: the index rows when there are any, else per file the blocks of
\* a fresh parse and, when those are none, the literal occurrences
findPatternMatches(d, modules, pattern, fileType) ==
    indexedOr(findPatternMatchesIndexed(d, pattern, fileType), d, modules, pattern,
              fileType)

\* stored file contents: a resource with an attribute and a lifecycle block, a file
\* with an attribute named lifecycle, a resource with a dynamic block, and a file
\* that does not parse
c_res == <<"r", "e", "s", "o", "u", "r", "c", "e", " ", "\"", "a", "b", "_", "s", "\"", " ", "\"", "s", "\"", " ", "{", "\n", " ", "n", " ", "=", " ", "1", "\n", " ", "l", "i", "f", "e", "c", "y", "c", "l", "e", " ", "{", " ", "i", " ", "=", " ", "1", " ", "}", "\n", "}", "\n">>

c_attr == <<"l", "i", "f", "e", "c", "y", "c", "l", "e", " ", "=", " ", "1", "\n", "r", "e", "s", "o", "u", "r", "c", "e", " ", "\"", "x", "s", "_", "k", "\"", " ", "\"", "n", "\"", " ", "{", "\n", "}", "\n">>

c_dyn == <<"r", "e", "s", "o", "u", "r", "c", "e", " ", "\"", "a", "b", "_", "k", "\"", " ", "\"", "k", "\"", " ", "{", "\n", " ", "d", "y", "n", "a", "m", "i", "c", " ", "\"", "d", "\"", " ", "{", "\n", " ", " ", "n", " ", "=", " ", "1", "\n", " ", "}", "\n", "}", "\n">>

c_bad == <<"r", "e", "s", "o", "u", "r", "c", "e", " ", "\"", "a", "b", "_", "s", "\"", " ", "\"", "b", "\"", " ", "{", "\n">>

Contents == {c_res, c_attr, c_dyn, c_bad}

f_main == <<"m", "a", "i", "n", ".", "t", "f">>

f_b == <<"b", ".", "t", "f">>

pt_res == <<"r", "e", "s", "o", "u", "r", "c", "e", " ", "\"", "a", "b", "\"">>

pt_res_has == <<"r", "e", "s", "o", "u", "r", "c", "e", " ", "\"", "a", "b", "_", "s", "\"", " ", "h", "a", "s", ":", "n">>

pt_res_upper == <<"r", "e", "s", "o", "u", "r", "c", "e", " ", "\"", "A", "B", "\"">>

pt_res_wild == <<"r", "e", "s", "o", "u", "r", "c", "e", " ", "\"", "a", "_", "_", "s", "\"">>

pt_dyn == <<"d", "y", "n", "a", "m", "i", "c", " ", "\"", "d", "\"">>

pt_dyn_has == <<"d", "y", "n", "a", "m", "i", "c", " ", "\"", "d", "\"", " ", "h", "a", "s", ":", "n">>

pt_life == <<"l", "i", "f", "e", "c", "y", "c", "l", "e">>

pt_life_has == <<"l", "i", "f", "e", "c", "y", "c", "l", "e", " ", "h", "a", "s", ":", "i">>

pt_res_nested == <<"r", "e", "s", "o", "u", "r", "c", "e", " ", "\"", "a", "b", "\"", " ", "h", "a", "s", ":", "l", "i", "f", "e", "c", "y", "c", "l", "e", ".", "i">>

pt_text == <<"n", " ", "=", " ", "1">>

Patterns == {pt_res, pt_res_has, pt_res_upper, pt_res_wild, pt_dyn, pt_dyn_has, pt_life, pt_life_has, pt_res_nested, pt_text}

MaxFiles == 2

FilePaths == <<f_main, f_b>>

PatternInit ==
    /\ InitRest
    /\ db = InsertModule(EmptyDB, [name |-> n_sa, lastUpdated |-> 1, readme |-> <<>>,
                                   hasExamples |-> FALSE])
    /\ reply = [tool |-> "", pattern |-> <<>>, fileType |-> <<>>, out |-> <<>>]

indexLastFile(d1) == parseAndIndexTerraformFile(d1, 1, d1.files[Len(d1.files)])

\* one more file of the module is stored and indexed, as a sync does for each file
StoreFile(content) ==
    /\ Len(db.files) < MaxFiles
    /\ db' = indexLastFile(insertModuleFile(db, 1, FilePaths[Len(db.files) + 1], content))
    /\ reply' = [tool |-> "", pattern |-> <<>>, fileType |-> <<>>, out |-> <<>>]
    /\ UNCHANGED rest

handleComparePatternAcrossModules(pattern, fileType) ==
    /\ reply' = [tool |-> "compare", pattern |-> pattern, fileType |-> fileType,
                 out |-> findPatternMatches(db, ListModules(db.modules), pattern, fileType)]
    /\ UNCHANGED <<db, rest>>

PatternNext ==
    \/ \E content \in Contents : StoreFile(content)
    \/ \E pattern \in Patterns, fileType \in {<<>>, f_b} :
          handleComparePatternAcrossModules(pattern, fileType)

SpecPattern == PatternInit /\ [][PatternNext]_vars


Recognized(pattern) == PatternShape(TrimSpace(pattern)).kind # <<>>

\* the candidate files of a request: the .tf files that pass the file-name filter
Candidates(d, fileType) ==
    LET Is(f) == HasSuffix(f.name, s_tf) /\ (fileType = <<>> \/ f.name = fileType)
    IN  SelectSeq(d.files, Is)

\* the blocks a fresh parse of every candidate file selects, as file and source text
ASTPicks(d, pattern, fileType) ==
    LET fs == Candidates(d, fileType)
    IN  {[file |-> fs[k].name, code |-> m.code] :
           <<k, m>> \in {p \in (1..Len(fs)) \X
                               UNION {{extractASTPatternMatches(fs[i].content, pattern)[j] :
                                         j \in 1..Len(extractASTPatternMatches(fs[i].content, pattern))} :
                                      i \in 1..Len(fs)} :
                           \E j \in 1..Len(extractASTPatternMatches(fs[p[1]].content, pattern)) :
                              extractASTPatternMatches(fs[p[1]].content, pattern)[j] = p[2]}}

\* the blocks the index selects, as file and source text
IndexPicks(d, pattern, fileType) ==
    LET ms == findPatternMatchesIndexed(d, pattern, fileType)
    IN  {[file |-> ms[k].file, code |-> ms[k].code] : k \in 1..Len(ms)}

Picks(out) == {[file |-> out[k].file, code |-> out[k].code] : k \in 1..Len(out)}

\* C9: for a pattern of a recognized shape the matches are the rows of the block
\* index when it yields any and otherwise the blocks a fresh parse of each candidate
\* file selects; a match of the literal substring search (one without a block type)
\* appears only for a pattern of none of the three shapes.
C9_IndexThenASTOnly ==
    (reply.tool = "compare" /\ Recognized(reply.pattern)) =>
       /\ Picks(reply.out) =
            IF IndexPicks(db, reply.pattern, reply.fileType) # {}
            THEN IndexPicks(db, reply.pattern, reply.fileType)
            ELSE ASTPicks(db, reply.pattern, reply.fileType)
       /\ \A k \in 1..Len(reply.out) : reply.out[k].btype # <<>>

\* the same for the requests whose candidate files each hold a block the parse
\* selects or no occurrence of the pattern text
C9_UnlessTextOccurs ==
    (/\ reply.tool = "compare" /\ Recognized(reply.pattern)
     /\ LET fs == Candidates(db, reply.fileType)
        IN  \A k \in 1..Len(fs) :
               \/ extractASTPatternMatches(fs[k].content, reply.pattern) # <<>>
               \/ extractPatternMatches(fs[k].content, reply.pattern) = <<>>) =>
       /\ Picks(reply.out) =
            IF IndexPicks(db, reply.pattern, reply.fileType) # {}
            THEN IndexPicks(db, reply.pattern, reply.fileType)
            ELSE ASTPicks(db, reply.pattern, reply.fileType)
       /\ \A k \in 1..Len(reply.out) : reply.out[k].btype # <<>>

\* the literal search answers a pattern of none of the shapes
C9_LiteralForOtherPatterns ==
    (reply.tool = "compare" /\ ~Recognized(reply.pattern)) =>
       \A k \in 1..Len(reply.out) : reply.out[k].btype = <<>>

\* every has: path a block's body satisfies is in its flattened attribute paths, and
\* the other way round
HasIsMembership(d, pattern) ==
    LET filters == parseHasFilters(TrimSpace(pattern))
    IN  \A i \in 1..Len(d.files) :
          LET parsed == parseHCLBody(d.files[i].content)
              bls == walkAll(parsed.body)
          IN  \A j \in 1..Len(bls), k \in 1..Len(filters) :
                 hasPath(bls[j].body, filters[k]) <=>
                   \E n \in 1..Len(collectAttrPaths(bls[j].body, <<>>)) :
                      collectAttrPaths(bls[j].body, <<>>)[n] = filters[k]

\* C10: over the same stored contents and for any recognized pattern with any has:
\* filters, the index path and the parse path select the same blocks with the same
\* source text, the whole byte range of the block; a block is selected only if each
\* has: path is in its flattened attribute-path list.
C10_IndexEqualsAST ==
    (reply.tool = "compare" /\ Recognized(reply.pattern)) =>
       /\ IndexPicks(db, reply.pattern, reply.fileType)
            = ASTPicks(db, reply.pattern, reply.fileType)
       /\ HasIsMembership(db, reply.pattern)

\* the same for the resource prefixes in lower case that hold no LIKE wildcard
C10_PlainPrefixes ==
    (/\ reply.tool = "compare" /\ Recognized(reply.pattern)
     /\ LET want == PatternShape(TrimSpace(reply.pattern)).want
        IN  want = ToLower(want) /\ ~Contains(want, <<"_">>) /\ ~Contains(want, <<"%">>)) =>
       /\ IndexPicks(db, reply.pattern, reply.fileType)
            = ASTPicks(db, reply.pattern, reply.fileType)
       /\ HasIsMembership(db, reply.pattern)

(***************************************************************************)
(* The block index while two workers of one pass fill it                   *)
(* (internal/indexer/sync.go: processRepoQueue, parseAndIndexTerraformFile *)
(* and indexHCLBlocks; every InsertHCLBlock is a statement of its own on    *)
(* the shared connection)                                                  *)
(***************************************************************************)

OrderWorkers == {1, 2}

\* the rows parseAndIndexTerraformFile writes before it calls indexHCLBlocks
indexRowsBeforeBlocks(d, moduleID, file, body) ==
    LET d1 == InsertRows(d, moduleID, extractVariables(body))
        d2 == InsertRows(d1, moduleID, extractOutputs(body))
        d3 == InsertRows(d2, moduleID, extractResources(body, file.name))
    IN  InsertRows(d3, moduleID, extractDataSources(body, file.name))

\* the store once both workers have stored the files of their repositories
OrderStore(content) ==
    LET d1 == InsertModule(EmptyDB, [name |-> n_kv, lastUpdated |-> 1, readme |-> <<>>,
                                     hasExamples |-> FALSE])
        d2 == InsertModule(d1, [name |-> n_sa, lastUpdated |-> 1, readme |-> <<>>,
                                hasExamples |-> FALSE])
        d3 == insertModuleFile(d2, 1, f_main, c_res)
        d4 == insertModuleFile(d3, 1, f_b, c_dyn)
    IN  insertModuleFile(d4, 2, f_main, content)

OrderInit ==
    /\ marker = [r \in Syncable |-> 1]
    /\ jobs = <<>>
    /\ pass = NoPass
    /\ progress = NoProgress
    /\ alive = TRUE
    /\ faults = 0
    /\ InitGhost
    /\ \E content \in {c_res, c_dyn} : db = OrderStore(content)
    /\ workers = [w \in OrderWorkers |->
                    [pc |-> "file", mid |-> w, files |-> GetModuleFiles(db, w),
                     todo |-> <<>>]]
    /\ reply = [tool |-> "", pattern |-> <<>>, fileType |-> <<>>, out |-> <<>>]

orderRest == <<marker, jobs, pass, progress, alive, last, lastPass, faults>>

\* the worker has parsed its next file and written the rows that come before the
\* block index; the blocks of the file are still to be inserted
parsedFile(w, file, parsed) ==
    IF ~parsed.ok
    THEN /\ workers' = [workers EXCEPT ![w].files = Tail(@)]
         /\ UNCHANGED db
    ELSE /\ db' = indexRowsBeforeBlocks(db, workers[w].mid, file, parsed.body)
         /\ workers' = [workers EXCEPT ![w].pc = "blocks",
                                       ![w].todo = walkBlocks(parsed.body)]

ParseFile(w) ==
    /\ workers[w].pc = "file" /\ workers[w].files # <<>>
    /\ parsedFile(w, workers[w].files[1], parseHCLBody(workers[w].files[1].content))
    /\ UNCHANGED <<reply, orderRest>>

\* one turn of the walk of indexHCLBlocks: one InsertHCLBlock
InsertBlock(w) ==
    /\ workers[w].pc = "blocks" /\ workers[w].todo # <<>>
    /\ db' = InsertHCLBlocks(db, workers[w].mid, workers[w].files[1].path,
                             <<workers[w].todo[1]>>)
    /\ workers' = [workers EXCEPT ![w].todo = Tail(@)]
    /\ UNCHANGED <<reply, orderRest>>

\* indexRelationships, the last call of parseAndIndexTerraformFile for the file
IndexRelationships(w) ==
    /\ workers[w].pc = "blocks" /\ workers[w].todo = <<>>
    /\ db' = insertRelationships(db, workers[w].mid, workers[w].files[1].path,
               collectRelationships(parseHCLBody(workers[w].files[1].content).body))
    /\ workers' = [workers EXCEPT ![w].pc = "file", ![w].files = Tail(@)]
    /\ UNCHANGED <<reply, orderRest>>

OrderPatterns == {pt_res, pt_dyn, pt_life, pt_text}

OrderNext ==
    \/ \E w \in OrderWorkers : ParseFile(w) \/ InsertBlock(w) \/ IndexRelationships(w)
    \/ \E pattern \in OrderPatterns, fileType \in {<<>>, f_b} :
          handleComparePatternAcrossModules(pattern, fileType)

SpecOrder == OrderInit /\ [][OrderNext]_vars

\* the module name of a match, without the number a file with several matches adds
MatchModule(name) ==
    IF Index(name, <<" ", "#">>) < 0 THEN name ELSE Slice(name, 0, Index(name, <<" ", "#">>))

\* where the file of a match stands among the files of its module
FileRank(d, m) ==
    MinOr({i \in 1..Len(d.files) :
             /\ d.files[i].name = m.file
             /\ \E x \in d.modules : x.id = d.files[i].mid /\ x.name = MatchModule(m.module)},
          0)

\* where the text of a match starts in its file
MatchPos(d, m) == Index(d.files[FileRank(d, m)].content, m.code)

\* a match comes no later than another one of the same module
InFileOrder(d, a, b) ==
    \/ FileRank(d, a) < FileRank(d, b)
    \/ FileRank(d, a) = FileRank(d, b) /\ MatchPos(d, a) <= MatchPos(d, b)

\* C11: the matches of a structural pattern search come module by module, within a
\* module file by file, and within a file in the order of their positions, whichever
\* tier produced them and in whichever order the workers inserted the index rows.
C11_EncounterOrder ==
    reply.tool = "compare" =>
       \A i \in 1..Len(reply.out), j \in 1..Len(reply.out) :
          (i < j /\ MatchModule(reply.out[i].module) = MatchModule(reply.out[j].module)) =>
             /\ InFileOrder(db, reply.out[i], reply.out[j])
             /\ \A k \in i..j :
                   MatchModule(reply.out[k].module) = MatchModule(reply.out[i].module)

(***************************************************************************)
(* Pagination of a result list (pkg/mcp/server.go: paginateResults).       *)
(* Go's int is a two's-complement machine integer whose sum wraps; the     *)
(* model keeps that with a narrow width.                                   *)
(***************************************************************************)

\* the width of int in the model
IntBits == 6

MaxInt == 2^(IntBits - 1) - 1

MinInt == 0 - 2^(IntBits - 1)

\* the value of an int expression whose exact result is x
WrapInt(x) == ((x - MinInt) % 2^IntBits) + MinInt

min(a, b) == IF a < b THEN a ELSE b

max(a, b) == IF a > b THEN a ELSE b

\* results[startIdx:endIdx]: Go panics unless 0 <= startIdx <= endIdx <= cap(results)
sliceOrPanic(results, startIdx, endIdx) ==
    IF 0 <= startIdx /\ startIdx <= endIdx /\ endIdx <= Len(results)
    THEN [panic |-> FALSE, out |-> Slice(results, startIdx, endIdx)]
    ELSE [panic |-> TRUE, out |-> <<>>]

pageEnd(total, startIdx, limit) ==
    IF limit > 0 THEN min(WrapInt(startIdx + limit), total) ELSE total

pageFrom(results, startIdx, limit) ==
    sliceOrPanic(results, startIdx, pageEnd(Len(results), startIdx, limit))

paginateResults(results, offset, limit) ==
    pageFrom(results, min(max(0, offset), Len(results)), limit)

\* the lengths of the result lists that are paginated
Totals == {0, 1, 3, 25}

\* a request whose matches number total waits for its page
PageInit ==
    /\ InitRest
    /\ db = EmptyDB
    /\ \E total \in Totals, offset \in MinInt..MaxInt, limit \in MinInt..MaxInt :
          reply = [tool |-> "paginate", done |-> FALSE, total |-> total,
                   offset |-> offset, limit |-> limit, panic |-> FALSE, out |-> <<>>]

\* the matches are the numbers 1..total, so that a page shows where it was cut
Paginate ==
    /\ reply.tool = "paginate" /\ ~reply.done
    /\ reply' = [reply EXCEPT
          !.done = TRUE,
          !.panic = paginateResults([i \in 1..reply.total |-> i], reply.offset,
                                    reply.limit).panic,
          !.out = paginateResults([i \in 1..reply.total |-> i], reply.offset,
                                  reply.limit).out]
    /\ UNCHANGED <<db, rest>>

PageNext == Paginate

SpecPage == PageInit /\ [][PageNext]_vars

\* where the page starts: the offset clamped into [0, total]
PageStart(total, offset) == min(max(offset, 0), total)

\* how long the page is
PageLen(total, offset, limit) ==
    IF limit = 0 THEN total - PageStart(total, offset)
    ELSE min(limit, total - PageStart(total, offset))

\* the page the request should get
PageOf(total, offset, limit) ==
    [i \in 1..PageLen(total, offset, limit) |-> PageStart(total, offset) + i]

\* C12: for a list of length total, any offset and any limit >= 0 up to the largest
\* int, pagination does not panic and returns the contiguous sub-list that starts at
\* s = min(max(offset, 0), total) and has length total - s when limit = 0 and
\* min(limit, total - s) otherwise.
C12_Paginate ==
    (reply.tool = "paginate" /\ reply.done /\ reply.limit >= 0) =>
       /\ ~reply.panic
       /\ reply.out = PageOf(reply.total, reply.offset, reply.limit)

\* the same for the requests whose start plus limit is an int
C12_PaginateInRange ==
    (/\ reply.tool = "paginate" /\ reply.done /\ reply.limit >= 0
     /\ PageStart(reply.total, reply.offset) + reply.limit <= MaxInt) =>
       /\ ~reply.panic
       /\ reply.out = PageOf(reply.total, reply.offset, reply.limit)

\* 25 matches with offset 20 and limit 10 give the last 5
C12_LastPage ==
    (/\ reply.tool = "paginate" /\ reply.done
     /\ reply.total = 25 /\ reply.offset = 20 /\ reply.limit = 10) =>
       reply.out = <<21, 22, 23, 24, 25>> /\ ~reply.panic

(***************************************************************************)
(* Prompt interpretation (pkg/mcp/server.go: interpretRelationshipPrompt,  *)
(* extractPromptLimit, tokenizePrompt, findModuleFromTokens,               *)
(* candidateModuleForms, deriveQueryFromTokens)                            *)
(***************************************************************************)

s_top == <<"t", "o", "p">>

s_first == <<"f", "i", "r", "s", "t">>

s_limit == <<"l", "i", "m", "i", "t">>

Digits == {"0", "1", "2", "3", "4", "5", "6", "7", "8", "9"}

PromptLetters == Letters \cup {"T"}

\* a word character of the regular expression: \b is the ASCII word boundary
IsWordByte(c) == c \in PromptLetters \cup Digits \cup {"_"}

NotDigit(c) == c \notin Digits

NotSpace(c) == ~IsSpace(c)

DigitValue(c) == CHOOSE n \in 0..9 : ToString(n) = c

RECURSIVE Atoi(_)
\* strconv.Atoi of a run of digits
Atoi(ds) ==
    IF ds = <<>> THEN 0
    ELSE 10 * Atoi(SubSeq(ds, 1, Len(ds) - 1)) + DigitValue(ds[Len(ds)])

NoPhrase == [end |-> 0, digits |-> <<>>]

\* (\d{1,3})\b: the digits from d up to e - 1, when they are one to three and no word
\* character follows
phraseDigits(s, d, e) ==
    IF e - d >= 1 /\ e - d <= 3 /\ (e > Len(s) \/ ~IsWordByte(s[e]))
    THEN [end |-> e, digits |-> SubSeq(s, d, e - 1)]
    ELSE NoPhrase

\* \s+: the white space from j up to d - 1, at least one character
phraseSpaces(s, j, d) ==
    IF d > j THEN phraseDigits(s, d, FirstFrom(s, d, NotDigit)) ELSE NoPhrase

phraseKeyword(s, i, n) ==
    IF n = 0 THEN NoPhrase ELSE phraseSpaces(s, i + n, FirstFrom(s, i + n, NotSpace))

\* (?i)(?:top|first|limit): the length of the keyword a text begins with, or 0
keywordLen(low) ==
    IF HasPrefix(low, s_top) THEN Len(s_top)
    ELSE IF HasPrefix(low, s_first) THEN Len(s_first)
    ELSE IF HasPrefix(low, s_limit) THEN Len(s_limit)
    ELSE 0

\* the match of limitRegex that starts at position i of s: the position after its
\* end and its digits, or NoPhrase
phraseAt(s, i) ==
    IF i > 1 /\ IsWordByte(s[i - 1]) THEN NoPhrase
    ELSE phraseKeyword(s, i, keywordLen(ToLower(SubSeq(s, i, Len(s)))))

\* the callback of ReplaceAllStringFunc: a number above zero is assigned to limit
limitAfter(limit, parsed) == IF parsed > 0 THEN parsed ELSE limit

RECURSIVE limitScan(_, _, _, _)
limitStep(s, i, limit, cleaned, ph) ==
    IF ph.end = 0 THEN limitScan(s, i + 1, limit, Append(cleaned, s[i]))
    ELSE limitScan(s, ph.end, limitAfter(limit, Atoi(ph.digits)), cleaned)

\* ReplaceAllStringFunc: the matches from left to right, none overlapping another
limitScan(s, i, limit, cleaned) ==
    IF i > Len(s) THEN [limit |-> limit, cleaned |-> cleaned]
    ELSE limitStep(s, i, limit, cleaned, phraseAt(s, i))

extractPromptLimit(prompt) == limitScan(prompt, 1, 0, <<>>)

IsTokenChar(c) == c \in PromptLetters \cup Digits \cup {"/", "_", "-"}

NotTokenChar(c) == ~IsTokenChar(c)

RECURSIVE tokenizePrompt(_)
tokenCut(t, e) == <<SubSeq(t, 1, e - 1)>> \o tokenizePrompt(SubSeq(t, e, Len(t)))

tokenFrom(t, b) ==
    IF b > Len(t) THEN <<>>
    ELSE tokenCut(SubSeq(t, b, Len(t)), FirstFrom(SubSeq(t, b, Len(t)), 1, NotTokenChar))

\* tokenizePrompt: the maximal runs of letters, digits, /, _ and -; Original is the
\* run, Lower its lower case
tokenizePrompt(input) == tokenFrom(input, FirstFrom(input, 1, IsTokenChar))

relationshipStopwords ==
    {<<"s", "h", "o", "w">>,
     <<"m", "e">>,
     <<"p", "l", "e", "a", "s", "e">>,
     <<"t", "h", "e">>,
     <<"a">>,
     <<"a", "n">>,
     <<"m", "o", "d", "u", "l", "e">>,
     <<"m", "o", "d", "u", "l", "e", "s">>,
     <<"r", "e", "l", "a", "t", "i", "o", "n", "s", "h", "i", "p">>,
     <<"r", "e", "l", "a", "t", "i", "o", "n", "s", "h", "i", "p", "s">>,
     <<"i", "n">>,
     <<"w", "i", "t", "h", "i", "n">>,
     <<"i", "n", "s", "i", "d", "e">>,
     <<"f", "o", "r">>,
     <<"o", "f">>,
     <<"o", "n">>,
     <<"a", "b", "o", "u", "t">>,
     <<"a", "c", "r", "o", "s", "s">>,
     <<"w", "i", "t", "h">>,
     <<"t", "o">>,
     <<"a", "n", "d">>,
     <<"a", "l", "l">>,
     <<"a", "n", "y">>,
     <<"f", "i", "n", "d">>,
     <<"l", "i", "s", "t">>,
     <<"s", "e", "e">>,
     <<"n", "e", "e", "d">>,
     <<"w", "a", "n", "t">>,
     <<"h", "o", "w">>,
     <<"d", "o">>,
     <<"d", "o", "e", "s">>,
     <<"d", "i", "s", "p", "l", "a", "y">>,
     <<"g", "e", "t">>,
     <<"s", "h", "o", "w", "i", "n", "g">>,
     <<"t", "e", "l", "l">>,
     <<"e", "x", "p", "l", "a", "i", "n">>,
     <<"l", "o", "o", "k">>,
     <<"i", "n", "t", "o">>,
     <<"w", "h", "e", "r", "e">>,
     <<"w", "h", "i", "c", "h">>,
     <<"t", "o", "p">>,
     <<"f", "i", "r", "s", "t">>,
     <<"l", "i", "m", "i", "t">>,
     <<"r", "e", "s", "u", "l", "t", "s">>,
     <<"m", "a", "t", "c", "h", "e", "s">>}

\* the orders in which a map of up to four keys can be iterated
FormOrders ==
    {o \in [1..4 -> 1..4] : \A i \in 1..4, j \in 1..4 : o[i] = o[j] => i = j}

RECURSIVE Distinct(_)
\* the sequence without the repetitions of an earlier element
Distinct(seq) ==
    IF seq = <<>> THEN <<>>
    ELSE LET front == Distinct(SubSeq(seq, 1, Len(seq) - 1))
         IN  IF seq[Len(seq)] \in Range(front) THEN front
             ELSE Append(front, seq[Len(seq)])

\* the strings candidateModuleForms pushes, in the order of the push calls
pushedForms(parts) ==
    <<TrimSpace(Join(parts, <<" ">>))>>
    \o (IF Len(parts) > 1
        THEN <<TrimSpace(Join(parts, s_dash)), TrimSpace(Join(parts, s_underscore))>>
        ELSE <<>>)
    \o <<TrimSpace(Join(parts, <<>>))>>

NotEmpty(x) == x # <<>>

\* the keys of the map: the distinct strings pushed that are not empty
formKeys(parts) == Distinct(SelectSeq(pushedForms(parts), NotEmpty))

\* the keys in the order the iteration of the map yields them
iterateForms(keys, order) ==
    LET Has(k) == k <= Len(keys)
        picks == SelectSeq([i \in 1..4 |-> order[i]], Has)
    IN  [i \in 1..Len(picks) |-> keys[picks[i]]]

\* candidateModuleForms: forms is filled by ranging over the map, an order Go leaves
\* unspecified and varies from one run to the next
candidateModuleForms(parts, order) == iterateForms(formKeys(parts), order)

\* SearchModules(candidate, 1) of the full-text engine: it finds ft.id for ft.term
\* and nothing for any other text
ftsAnswer(ft, candidate) == IF candidate = ft.term THEN ft.id ELSE 0

RECURSIVE tryForms(_, _, _, _)
formResolved(d, forms, tried, ft, res) ==
    IF res.found THEN [found |-> TRUE, id |-> res.id, tried |-> tried \cup {forms[1]}]
    ELSE tryForms(d, Tail(forms), tried \cup {forms[1]}, ft)

\* the loop over the forms of one window: found, or every form tried
tryForms(d, forms, tried, ft) ==
    IF forms = <<>> THEN [found |-> FALSE, id |-> 0, tried |-> tried]
    ELSE IF forms[1] = <<>> \/ forms[1] \in tried THEN tryForms(d, Tail(forms), tried, ft)
    ELSE formResolved(d, forms, tried, ft,
                      resolveModule(d, forms[1], ftsAnswer(ft, forms[1])))

\* the windows of one size over n tokens, from the rightmost start to the leftmost
windowStarts(n, window) ==
    [k \in 1..(n - window + 1) |-> [start |-> n - window - (k - 1), window |-> window]]

\* the windows in the order of the two loops: sizes maxWindow down to 1
windowsOf(n) ==
    Concat([j \in 1..min(3, n) |-> windowStarts(n, min(3, n) - j + 1)])

segmentLower(tokens, w) ==
    [i \in 1..w.window |-> ToLower(tokens[w.start + i])]

RECURSIVE tryWindows(_, _, _, _, _, _)
windowTried(d, tokens, wins, order, ft, r) ==
    IF r.found
    THEN [found |-> TRUE, id |-> r.id,
          indices |-> [i \in 1..wins[1].window |-> wins[1].start + i - 1]]
    ELSE tryWindows(d, tokens, Tail(wins), r.tried, order, ft)

tryWindows(d, tokens, wins, tried, order, ft) ==
    IF wins = <<>> THEN [found |-> FALSE, id |-> 0, indices |-> <<>>]
    ELSE windowTried(d, tokens, wins, order, ft,
                     tryForms(d, candidateModuleForms(segmentLower(tokens, wins[1]), order),
                              tried, ft))

\* findModuleFromTokens: the module and the 0-based indices of the window that
\* resolved, or errModuleNotInPrompt (found = FALSE)
findModuleFromTokens(d, tokens, order, ft) ==
    tryWindows(d, tokens, windowsOf(Len(tokens)), {}, order, ft)

\* strconv.Atoi succeeds: digits, with or without a sign
IsNumber(t) ==
    \/ t # <<>> /\ \A i \in 1..Len(t) : t[i] \in Digits
    \/ Len(t) > 1 /\ t[1] = "-" /\ \A i \in 2..Len(t) : t[i] \in Digits

\* the tokens around the module window: those before it, else those after it
focusAround(tokens, moduleIdx) ==
    IF moduleIdx = <<>> THEN <<>>
    ELSE IF moduleIdx[1] > 0 THEN SubSeq(tokens, 1, moduleIdx[1])
    ELSE IF moduleIdx[Len(moduleIdx)] + 1 < Len(tokens)
         THEN SubSeq(tokens, moduleIdx[Len(moduleIdx)] + 2, Len(tokens))
    ELSE <<>>

\* every token outside the module window
focusOutside(tokens, moduleIdx) ==
    Concat([i \in 1..Len(tokens) |->
              IF i - 1 \in Range(moduleIdx) THEN <<>> ELSE <<tokens[i]>>])

focusOr(focus, tokens, moduleIdx) ==
    IF focus = <<>> THEN focusOutside(tokens, moduleIdx) ELSE focus

filteredOr(filtered, focus) == IF filtered = <<>> THEN focus ELSE filtered

queryOfFocus(focus) ==
    LET Keep(t) == ToLower(t) \notin relationshipStopwords /\ ~IsNumber(ToLower(t))
    IN  TrimSpace(Join(filteredOr(SelectSeq(focus, Keep), focus), <<" ">>))

deriveQueryFromTokens(tokens, moduleIdx) ==
    queryOfFocus(focusOr(focusAround(tokens, moduleIdx), tokens, moduleIdx))

interpreted(tokens, limit, found, query) ==
    [module |-> found.id, window |-> found.indices, query |-> query, limit |-> limit,
     tokens |-> tokens,
     err |-> IF query = <<>> THEN "could not identify what to search for" ELSE ""]

interpretFound(tokens, limit, found) ==
    interpreted(tokens, limit, found, deriveQueryFromTokens(tokens, found.indices))

interpretTokens(d, tokens, limit, order, ft) ==
    IF tokens = <<>>
    THEN [module |-> 0, window |-> <<>>, query |-> <<>>, limit |-> limit,
          tokens |-> tokens, err |-> "could not find useful words"]
    ELSE interpretFound(tokens, limit, findModuleFromTokens(d, tokens, order, ft))

interpretCleaned(d, lim, order, ft) ==
    interpretTokens(d, tokenizePrompt(lim.cleaned), lim.limit, order, ft)

interpretOriginal(d, original, order, ft) ==
    IF original = <<>>
    THEN [module |-> 0, window |-> <<>>, query |-> <<>>, limit |-> 0, tokens |-> <<>>,
          err |-> "prompt is empty"]
    ELSE interpretCleaned(d, extractPromptLimit(original), order, ft)

\* interpretRelationshipPrompt: module (0 for none), window, query, limit and error
interpretRelationshipPrompt(d, prompt, order, ft) ==
    interpretOriginal(d, TrimSpace(prompt), order, ft)

\* the shape parseRelationshipArgs gives a call that carries only a prompt
promptArgs(prompt) == [moduleName |-> <<>>, query |-> <<>>, limit |-> 0, prompt |-> prompt]

analyzeError(args, ft, text) ==
    [tool |-> "analyze", prompt |-> args.prompt, ft |-> ft, status |-> "error",
     error |-> text, module |-> 0, window |-> <<>>, query |-> <<>>, limit |-> 0,
     tokens |-> <<>>]

\* runRelationshipQuery is called with module, query and limit
analyzeRun(args, ft, module, window, query, limit, tokens) ==
    IF query = <<>> THEN analyzeError(args, ft, "Error: query missing")
    ELSE [tool |-> "analyze", prompt |-> args.prompt, ft |-> ft, status |-> "ok",
          error |-> "", module |-> module, window |-> window, query |-> query,
          limit |-> limit, tokens |-> tokens]

analyzeModule(d, args, ft, module, window, query, limit, tokens) ==
    IF module = 0 /\ TrimSpace(args.moduleName) # <<>>
    THEN IF resolveModule(d, TrimSpace(args.moduleName),
                          ftsAnswer(ft, TrimSpace(args.moduleName))).found
         THEN analyzeRun(args, ft,
                         resolveModule(d, TrimSpace(args.moduleName),
                                       ftsAnswer(ft, TrimSpace(args.moduleName))).id,
                         window, query, limit, tokens)
         ELSE analyzeError(args, ft, "Module not found")
    ELSE analyzeRun(args, ft, module, window, query, limit, tokens)

analyzeParsed(d, args, ft, p) ==
    IF p.err # "" THEN analyzeError(args, ft, "Could not interpret prompt")
    ELSE analyzeModule(d, args, ft,
                       IF TrimSpace(args.moduleName) = <<>> THEN p.module ELSE 0,
                       IF TrimSpace(args.moduleName) = <<>> THEN p.window ELSE <<>>,
                       IF TrimSpace(args.query) = <<>> THEN p.query ELSE TrimSpace(args.query),
                       IF args.limit = 0 /\ p.limit > 0 THEN p.limit ELSE args.limit,
                       p.tokens)

\* the answer of handleAnalyzeCodeRelationships to decoded arguments
analyzeAnswer(d, args, order, ft) ==
    IF TrimSpace(args.prompt) # <<>>
    THEN analyzeParsed(d, args, ft,
                       interpretRelationshipPrompt(d, TrimSpace(args.prompt), order, ft))
    ELSE analyzeModule(d, args, ft, 0, <<>>, TrimSpace(args.query), args.limit, <<>>)

handleAnalyzeCodeRelationships(args, order, ft) ==
    /\ reply' = analyzeAnswer(db, args, order, ft)
    /\ UNCHANGED <<db, rest>>

a_k_v == <<"k", "-", "v">>

pr_two == <<"T", "o", "p", " ", "3", " ", "d", "e", "p", "s", " ", "k", " ", "v", " ", "f", "i", "r", "s", "t", " ", "5">>

pr_after == <<"k", " ", "v", " ", "v", "a", "r", "s">>

pr_long == <<"t", "o", "p", " ", "1", "2", "3", "4", " ", "k", "v", " ", "x">>

pr_zero == <<"f", "i", "r", "s", "t", " ", "2", " ", "k", "-", "v", " ", "l", "i", "m", "i", "t", " ", "0">>

pr_none == <<"z", "z">>

pr_blank == <<" ">>

pr_marks == <<".", " ", ".">>

Prompts == {pr_two, pr_after, pr_long, pr_zero, pr_none, pr_blank, pr_marks}

\* the alias rows a sync may have written: module and alias
PromptAliasRows == {<<1, q_kv>>, <<2, q_kv>>, <<2, a_k_v>>}

\* what the full-text engine answers: nothing at all, or module 2 for the text zz
FtsAnswers == {[term |-> <<>>, id |-> 0], [term |-> q_zz, id |-> 2]}

\* a store holding two modules, without aliases yet
PromptInit ==
    /\ InitRest
    /\ db = InsertModule(InsertModule(EmptyDB,
                [name |-> n_kv, lastUpdated |-> 1, readme |-> <<>>, hasExamples |-> FALSE]),
                [name |-> n_sa, lastUpdated |-> 1, readme |-> <<>>, hasExamples |-> FALSE])
    /\ reply = [tool |-> ""]

PromptNext ==
    \/ \E row \in PromptAliasRows : AddAlias(row[1], row[2], 1)
    \/ \E prompt \in Prompts, order \in FormOrders, ft \in FtsAnswers :
          handleAnalyzeCodeRelationships(promptArgs(prompt), order, ft)

SpecPrompt == PromptInit /\ [][PromptNext]_vars

\* the positions of s at which a phrase top/first/limit N starts
PhraseStarts(s) == {i \in 1..Len(s) : phraseAt(s, i).end # 0}

\* the positions of s inside a phrase
PhraseChars(s) ==
    UNION {{p \in 1..Len(s) : i <= p /\ p < phraseAt(s, i).end} : i \in PhraseStarts(s)}

\* s without the characters of its phrases
WithoutPhrases(s) ==
    LET Keep(p) == p \notin PhraseChars(s)
        at == SelectSeq([p \in 1..Len(s) |-> p], Keep)
    IN  [k \in 1..Len(at) |-> s[at[k]]]

\* the number of the phrase of s that starts at position i
PhraseNumber(s, i) == Atoi(phraseAt(s, i).digits)

\* the prompt of the last answer, as interpretRelationshipPrompt reads it
Asked == TrimSpace(reply.prompt)

\* C13: when a prompt holds phrases of the form top/first/limit N, the limit that
\* prompt interpretation returns is the N of the first of them, and the text of the
\* phrases is not among the tokens used for module lookup and query derivation.
C13_FirstPhraseWins ==
    (reply.tool = "analyze" /\ reply.status = "ok" /\ PhraseStarts(Asked) # {}) =>
       /\ reply.limit = PhraseNumber(Asked, MinOr(PhraseStarts(Asked), 0))
       /\ reply.tokens = tokenizePrompt(WithoutPhrases(Asked))

\* the limit is the N of the last phrase whose N is above zero, and zero without one
C13_LastPositiveWins ==
    (reply.tool = "analyze" /\ reply.status = "ok") =>
       LET pos == {i \in PhraseStarts(Asked) : PhraseNumber(Asked, i) > 0}
       IN  reply.limit = IF pos = {} THEN 0
                         ELSE PhraseNumber(Asked, CHOOSE i \in pos : \A j \in pos : j <= i)

\* the tokens are those of the prompt without its phrases
C13_PhrasesRemoved ==
    (reply.tool = "analyze" /\ reply.status = "ok") =>
       reply.tokens = tokenizePrompt(WithoutPhrases(Asked))

\* the order of the push calls: space-joined, hyphen-joined, underscore-joined,
\* concatenated
PushOrder == [i \in 1..4 |-> i]

\* the lookup with the candidates of every window tested in the order of the pushes
InPushOrder == findModuleFromTokens(db, reply.tokens, PushOrder, reply.ft)

\* C14: the module of a prompt is found by examining the token windows of size 3, then
\* 2, then 1, each size from the rightmost window to the leftmost, and the candidates of
\* a window in the order space-joined, hyphen-joined, underscore-joined, concatenated;
\* the module of the first candidate that resolves is returned, so the same prompt
\* against the same store always yields the same module and the same window.
C14_WindowsThenForms ==
    (reply.tool = "analyze" /\ reply.status = "ok") =>
       /\ reply.module = InPushOrder.id
       /\ reply.window = InPushOrder.indices

\* the window does not depend on the order of the candidates
C14_SameWindow ==
    (reply.tool = "analyze" /\ reply.status = "ok") => reply.window = InPushOrder.indices

\* the module is the one some order of the candidates finds
C14_ModuleOfSomeOrder ==
    (reply.tool = "analyze" /\ reply.status = "ok") =>
       \E order \in FormOrders :
          reply.module = findModuleFromTokens(db, reply.tokens, order, reply.ft).id

(***************************************************************************)
(* Classification of a reference (internal/indexer/sync.go:                *)
(* classifyTraversal), applied to traversals of one to three segments      *)
(***************************************************************************)

s_ab_s == <<"a", "b", "_", "s">>

s_n == <<"n">>

\* root names: the nine keywords, a resource type, and two plain identifiers
RootNames == {s_var, s_local, s_module, s_data, s_path, s_terraform, s_each, s_self,
              s_count, s_ab_s, s_n, s_variable}

SegmentNames == {s_n, s_ab_s, s_each}

\* the traversals classified: a root, then up to two attribute segments
Traversals ==
    {<<r>> : r \in RootNames}
    \cup {<<r, a>> : r \in RootNames, a \in SegmentNames}
    \cup {<<r, a, b>> : r \in RootNames, a \in SegmentNames, b \in SegmentNames}

ClassifyInit ==
    /\ InitRest
    /\ db = EmptyDB
    /\ \E traversal \in Traversals :
          reply = [tool |-> "classify", done |-> FALSE, traversal |-> traversal,
                   kind |-> <<>>, name |-> <<>>]

\* collectRelationships classifies one reference of an expression
Classify ==
    /\ reply.tool = "classify" /\ ~reply.done
    /\ reply' = [reply EXCEPT !.done = TRUE,
                              !.kind = classifyTraversal(reply.traversal)[1],
                              !.name = classifyTraversal(reply.traversal)[2]]
    /\ UNCHANGED <<db, rest>>

ClassifyNext == Classify

SpecClassify == ClassifyInit /\ [][ClassifyNext]_vars

\* the keywords whose kind bears their own name, besides each
SameNameRoots == {s_path, s_terraform, s_self, s_count}

\* the kind of a root keyword, with the kind eachKind for the keyword each
KindOfRoot(root, eachKind) ==
    IF root = s_var THEN s_variable
    ELSE IF root = s_local THEN s_local
    ELSE IF root = s_module THEN s_module_output
    ELSE IF root = s_data THEN s_data_source
    ELSE IF root \in SameNameRoots THEN root
    ELSE IF root = s_each THEN eachKind
    ELSE IF \E i \in 1..Len(root) : root[i] = "_" THEN s_resource
    ELSE s_reference

\* C15: a reference is classified by its root keyword alone: var gives variable, local
\* local, module module_output, data data_source, each of path, terraform, self and
\* count the kind of the same name, each the kind loop, any other root that holds an
\* underscore resource, and every remaining root the generic kind reference.
C15_KindByRoot ==
    (reply.tool = "classify" /\ reply.done) =>
       reply.kind = KindOfRoot(reply.traversal[1], s_loop)

\* a reference rooted at each, with an attribute segment, has been classified
C15_Witness ==
    /\ reply.tool = "classify" /\ reply.done
    /\ reply.traversal = <<s_each, s_n>>
    /\ reply.kind = s_loop

\* the statement with the kind each for the keyword each
C15_EachNamedEach ==
    (reply.tool = "classify" /\ reply.done) =>
       reply.kind = KindOfRoot(reply.traversal[1], s_each)

\* ---------------------------------------------------------------------------
\* Tool calls and their arguments (server.go: handleToolsCall, ensureDB,
\* UnmarshalArgs, parseRelationshipArgs).  The server starts without a store
\* handle; ensureDB opens the store and runs the schema on the first call that
\* reaches it.
\* ---------------------------------------------------------------------------

\* s.db == nil: no store handle yet
NilDB == [opened |-> FALSE]

\* JSON values of an argument: absent from the object, a string, a number, a boolean
JAbsent == [t |-> "absent", s |-> <<>>, n |-> 0]

JString(s) == [t |-> "string", s |-> s, n |-> 0]

JNumber(n) == [t |-> "number", s |-> <<>>, n |-> n]

JBool == [t |-> "bool", s |-> <<>>, n |-> 0]

\* json.Unmarshal into a string field and into an int field of the argument struct
decodesString(v) == v.t \in {"absent", "string"}

decodesInt(v) == v.t \in {"absent", "number"}

\* parseRelationshipArgs, the limit of a map: a number, a numeric or blank string
relationshipLimitOK(v) ==
    \/ v.t \in {"absent", "number"}
    \/ v.t = "string" /\ (TrimSpace(v.s) = <<>> \/ IsNumber(v.s))

relationshipLimit(v) ==
    IF v.t = "string" THEN (IF TrimSpace(v.s) = <<>> THEN 0 ELSE Atoi(v.s)) ELSE v.n

\* ensureDB: nothing to do with a handle; else database.New opens the store and
\* executes the schema, which may fail
ensureDB(d, opens) ==
    IF d # NilDB THEN [db |-> d, err |-> FALSE, store |-> <<>>]
    ELSE IF opens THEN [db |-> EmptyDB, err |-> FALSE, store |-> <<"open", "schema">>]
    ELSE [db |-> NilDB, err |-> TRUE, store |-> <<"open">>]

toolReply(name, arguments, status, store, out) ==
    [tool |-> name, arguments |-> arguments, status |-> status, store |-> store,
     out |-> out]

\* handleComparePatternAcrossModules after ensureDB: decode, list the modules, match
compareAnswer(d, arguments, store) ==
    IF ~(decodesString(arguments.pattern) /\ decodesInt(arguments.limit))
    THEN toolReply("compare_pattern_across_modules", arguments, "invalid", store, <<>>)
    ELSE toolReply("compare_pattern_across_modules", arguments, "ok",
                   Append(store, "ListModules"),
                   paginateResults(findPatternMatches(d, ListModules(d.modules),
                                                      arguments.pattern.s, <<>>),
                                   0, arguments.limit.n))

relationshipArgs(arguments) ==
    [moduleName |-> <<>>, query |-> arguments.query.s,
     limit |-> relationshipLimit(arguments.limit), prompt |-> <<>>]

\* the store is queried by runRelationshipQuery only
relationshipReply(arguments, store, answer) ==
    toolReply("analyze_code_relationships", arguments,
              IF answer.status = "ok" THEN "ok" ELSE "missing",
              IF answer.status = "ok" THEN Append(store, "QueryRelationships") ELSE store,
              answer.query)

\* handleAnalyzeCodeRelationships after ensureDB: parseRelationshipArgs, then the query
relationshipAnswer(d, arguments, store) ==
    IF ~(decodesString(arguments.query) /\ relationshipLimitOK(arguments.limit))
    THEN toolReply("analyze_code_relationships", arguments, "invalid", store, <<>>)
    ELSE relationshipReply(arguments, store,
                           analyzeAnswer(d, relationshipArgs(arguments), <<1, 2, 3, 4>>,
                                         [term |-> <<>>, id |-> 0]))

\* handleSyncStatus decodes first and reads the job registry, never the store
statusAnswer(js, arguments) ==
    IF ~decodesString(arguments.job_id)
    THEN toolReply("sync_status", arguments, "invalid", <<>>, <<>>)
    ELSE IF arguments.job_id.s # <<>>
    THEN toolReply("sync_status", arguments, "notfound", <<>>, <<>>)
    ELSE toolReply("sync_status", arguments, "ok", <<>>, js)

\* the handlers that begin with ensureDB
storeToolAnswer(name, arguments, e) ==
    IF e.err THEN toolReply(name, arguments, "dbfail", e.store, <<>>)
    ELSE IF name = "compare_pattern_across_modules"
    THEN compareAnswer(e.db, arguments, e.store)
    ELSE relationshipAnswer(e.db, arguments, e.store)

\* handleToolsCall: dispatch on the tool name
handleToolsCall(name, arguments, opens) ==
    /\ IF name = "sync_status"
       THEN /\ reply' = statusAnswer(jobs, arguments)
            /\ db' = db
       ELSE /\ reply' = storeToolAnswer(name, arguments, ensureDB(db, opens))
            /\ db' = ensureDB(db, opens).db
    /\ UNCHANGED rest

\* a sync stores a module with one file, once the store is open
syncedModule(d, name) ==
    parseAndIndexTerraformFiles(
        insertModuleFile(InsertModule(d, [name |-> name, lastUpdated |-> 1,
                                          readme |-> <<>>, hasExamples |-> FALSE]),
                         d.nextID, f_main, c_res),
        d.nextID)

ModuleSynced(name) ==
    /\ db # NilDB
    /\ \A m \in db.modules : m.name # name
    /\ db' = syncedModule(db, name)
    /\ UNCHANGED <<reply, rest>>

s_5 == <<"5">>

s_x == <<"x">>

TextArgs == {JAbsent, JString(pt_life), JString(s_resource), JNumber(7)}

LimitArgs == {JAbsent, JNumber(1), JString(s_5), JString(s_x), JBool}

\* the arguments of a call; the required pattern of a comparison is always sent
ToolArguments(name) ==
    IF name = "compare_pattern_across_modules"
    THEN [pattern : TextArgs \ {JAbsent}, limit : LimitArgs]
    ELSE IF name = "analyze_code_relationships"
    THEN [query : TextArgs, limit : LimitArgs]
    ELSE [job_id : {JAbsent, JString(s_x), JNumber(7)}]

ToolNames == {"compare_pattern_across_modules", "analyze_code_relationships",
              "sync_status"}

\* a server that has not served a call yet
ArgsInit ==
    /\ InitRest
    /\ db = NilDB
    /\ reply = [tool |-> ""]

ArgsNext ==
    \/ \E name \in ToolNames, opens \in BOOLEAN :
          \E arguments \in ToolArguments(name) : handleToolsCall(name, arguments, opens)
    \/ \E name \in {n_kv, n_sa} : ModuleSynced(name)

SpecArgs == ArgsInit /\ [][ArgsNext]_vars

\* the arguments of the last call do not decode into the parameters of its tool
Malformed ==
    /\ reply.tool # ""
    /\ IF reply.tool = "compare_pattern_across_modules"
       THEN ~(decodesString(reply.arguments.pattern) /\ decodesInt(reply.arguments.limit))
       ELSE IF reply.tool = "analyze_code_relationships"
       THEN ~(decodesString(reply.arguments.query)
              /\ relationshipLimitOK(reply.arguments.limit))
       ELSE ~decodesString(reply.arguments.job_id)

\* C16: a call with malformed arguments is answered with the invalid-input error and
\* the store is not opened, initialized, read or written for it.
C16_NoStoreAccess ==
    Malformed => reply.status = "invalid" /\ reply.store = <<>>

\* with the store handle in place, a malformed call is answered as invalid input
\* without any store access: the only access ever made for one is the opening
C16_OnlyOpens ==
    Malformed => /\ reply.status \in {"invalid", "dbfail"}
                 /\ reply.store \in {<<>>, <<"open">>, <<"open", "schema">>}
                 /\ reply.status = "dbfail" <=> reply.store = <<"open">>

\* sync_status never touches the store
C16_StatusNoStore ==
    reply.tool = "sync_status" => reply.store = <<>> /\ (Malformed <=> reply.status = "invalid")

\* ---------------------------------------------------------------------------
\* What a re-sync has cleared when it reaches the readme and the archive
\* ---------------------------------------------------------------------------

\* worker w has cleared the old data of its module and has not ingested the archive yet
Cleared(w) == workers[w].pc \in {"readme", "archive"}

\* the rows of the eight tables of ClearModuleData held for module id
ClearedTableRows(d, id) ==
    Len(GetModuleFiles(d, id))
    + Cardinality({i \in 1..Len(d.blocks) : d.blocks[i].mid = id})
    + Cardinality({r \in BagToSet(d.rows) : r.mid = id})

TagAliasRows(d, id) == {x \in d.tags \cup d.aliases : x.mid = id}

\* C17: when a re-sync starts fetching the readme and ingesting the archive, the store
\* holds no file, variable, output, resource, data-source, block, relationship, alias
\* or tag row of the module.
C17_AllClearedFirst ==
    \A w \in Workers :
        Cleared(w) => /\ ClearedTableRows(db, workers[w].mid) = 0
                      /\ TagAliasRows(db, workers[w].mid) = {}

\* the rows of the eight tables of ClearModuleData are gone at that moment
C17_TablesCleared ==
    \A w \in Workers : Cleared(w) => ClearedTableRows(db, workers[w].mid) = 0

\* the tags and aliases still held at that moment were there before the re-sync began
C17_OnlyOldTagsRemain ==
    \A w \in Workers :
        Cleared(w) => TagAliasRows(db, workers[w].mid) \subseteq
                          (pass.snap.tags \cup pass.snap.aliases)

\* ---------------------------------------------------------------------------
\* The rate limiter of the GitHub client (sync.go: NewSyncer, RateLimiter.acquire).
\* Time is counted in units of five minutes.  In the specifications of the client
\* the variable pass holds the client, workers the goroutines that call it and
\* last what the model remembers of the calls.
\* ---------------------------------------------------------------------------

\* rateLimit.maxTokens of a client with a credential
credentialTokens == 5000

\* time.Hour, in units of five minutes
refillWindow == 12

MaxClock == 14

Credentials == {"", "t"}

\* NewSyncer at time now: the limiter starts full, the window ends an hour later
NewRateLimiter(token, now) ==
    [tokens    |-> IF token # "" THEN credentialTokens ELSE maxTokens,
     maxTokens |-> IF token # "" THEN credentialTokens ELSE maxTokens,
     refillAt  |-> now + refillWindow,
     mutex     |-> 0]

\* acquire: if time.Now().After(rl.refillAt) { tokens = maxTokens; refillAt = now + hour }
refillDue(rl, now) == now > rl.refillAt

refill(rl, now) ==
    IF refillDue(rl, now)
    THEN [rl EXCEPT !.tokens = rl.maxTokens, !.refillAt = now + refillWindow]
    ELSE rl

\* a variant that takes a token whether or not one is left
takeAtZero(rl) == [rl EXCEPT !.tokens = @ - 1]

\* acquire: if rl.tokens > 0 { rl.tokens--; return true }; return false
take(rl) == IF rl.tokens > 0 THEN [rl EXCEPT !.tokens = @ - 1] ELSE rl

taken(rl) == rl.tokens > 0

LimiterWorkers == {1, 2}

limiterRest == <<db, marker, jobs, progress, alive, reply, lastPass, faults>>

LimiterInit ==
    /\ db = EmptyDB
    /\ marker = [r \in Syncable |-> 1]
    /\ jobs = <<>>
    /\ progress = NoProgress
    /\ alive = TRUE
    /\ faults = 0
    /\ reply = [tool |-> ""]
    /\ lastPass = [kind |-> "none", result |-> "", discovered |-> FALSE, failed |-> {},
                   unavailable |-> {}]
    /\ \E token \in Credentials :
          pass = [token |-> token, now |-> 0, rl |-> NewRateLimiter(token, 0)]
    /\ workers = [w \in LimiterWorkers |-> [pc |-> "idle"]]
    /\ last = [granted |-> 0, refills |-> 0]

\* time passes
Tick ==
    /\ pass.now < MaxClock
    /\ pass' = [pass EXCEPT !.now = @ + 1]
    /\ UNCHANGED <<workers, last, limiterRest>>

\* rl.mutex.Lock()
AcquireLock(w) ==
    /\ workers[w].pc = "idle"
    /\ pass.rl.mutex = 0
    /\ pass' = [pass EXCEPT !.rl.mutex = w]
    /\ workers' = [workers EXCEPT ![w].pc = "window"]
    /\ UNCHANGED <<last, limiterRest>>

\* the window test and the refill
AcquireRefill(w) ==
    /\ workers[w].pc = "window"
    /\ pass' = [pass EXCEPT !.rl = refill(@, pass.now)]
    /\ workers' = [workers EXCEPT ![w].pc = "take"]
    /\ last' = IF refillDue(pass.rl, pass.now)
               THEN [granted |-> 0, refills |-> last.refills + 1] ELSE last
    /\ UNCHANGED limiterRest

\* the token test, the decrement, the deferred Unlock and the return
AcquireTake(w) ==
    /\ workers[w].pc = "take"
    /\ pass' = [pass EXCEPT !.rl = [take(@) EXCEPT !.mutex = 0]]
    /\ workers' = [workers EXCEPT ![w].pc = "idle"]
    /\ last' = IF taken(pass.rl) THEN [last EXCEPT !.granted = @ + 1] ELSE last
    /\ UNCHANGED limiterRest

LimiterNext ==
    \/ Tick
    \/ \E w \in LimiterWorkers :
         \/ AcquireLock(w)
         \/ AcquireRefill(w)
         \/ AcquireTake(w)

SpecLimiter == LimiterInit /\ [][LimiterNext]_vars

Capacity == IF pass.token = "" THEN 60 ELSE 5000

\* a step that changes the token count takes one token from a count above zero, or
\* sets the count to the capacity after the window has ended
TokenStep ==
    \/ pass'.rl.tokens = pass.rl.tokens
    \/ /\ pass'.rl.tokens = pass.rl.tokens - 1
       /\ pass.rl.tokens > 0
       /\ \E w \in LimiterWorkers : workers[w].pc = "take" /\ workers'[w].pc = "idle"
    \/ /\ pass'.rl.tokens = Capacity
       /\ pass.now > pass.rl.refillAt

TokenBounds ==
    /\ pass.rl.maxTokens = Capacity
    /\ 0 <= pass.rl.tokens /\ pass.rl.tokens <= Capacity
    /\ last.granted <= Capacity

\* C18: the token count stays within 0..capacity (60 without a credential, 5000 with
\* one), changes only by one taken on a successful acquire or by a reset to the
\* capacity after the window, and at most capacity acquires succeed between two refills.
C18_TokenBucket == []TokenBounds /\ [][TokenStep]_vars

\* the bucket has been refilled after the window and then emptied by as many
\* successful acquires as the capacity
C18_Witness ==
    /\ last.refills > 0
    /\ last.granted = Capacity
    /\ pass.rl.tokens = 0

\* ---------------------------------------------------------------------------
\* The GitHub client: get, getWithPagination, getArchive, doRequest, clearCache.
\* A call is given what the upstream would answer: the status and the body; a
\* listing body 2 carries a Link header to a next page.
\* ---------------------------------------------------------------------------

\* 10 * time.Minute, in units of five minutes
cacheTTL == 2

MaxCalls == 5

MaxClientClock == 4

NoEntry == [kind |-> "none", data |-> 0, nextURL |-> "", expires |-> 0]

\* the URLs the syncer asks for: readme and file contents with get, the repository
\* listing with getWithPagination, the tarball with getArchive
GetURLs == {"readme"}

PageURLs == {"repos"}

ArchiveURLs == {"tarball"}

Statuses200 == {200, 500}

ArchiveStatuses == {200, 404, 500}

Bodies == {1, 2}

\* acquire as one call: the limiter afterwards, and whether a token was granted
acquire(rl, now) == take(refill(rl, now))

acquired(rl, now) == taken(refill(rl, now))

\* a variant that never lets an entry expire
cacheFreshForever(c, url) == c.cache[url].kind # "none"

\* exists && time.Now().Before(entry.ExpiresAt)
cacheFresh(c, url) == c.cache[url].kind # "none" /\ c.now < c.cache[url].expires

cachePut(c, url, kind, data, nextURL) ==
    [c EXCEPT !.cache[url] = [kind |-> kind, data |-> data, nextURL |-> nextURL,
                              expires |-> c.now + cacheTTL]]

\* parseNextLink of the Link header of a listing
parseNextLink(body) == IF body >= 2 THEN "repos?page=" \o ToString(body) ELSE ""

callResult(c, err, data, nextURL, requests, hit) ==
    [c |-> c, err |-> err, data |-> data, nextURL |-> nextURL, requests |-> requests,
     hit |-> hit]

\* a variant that sends the request although no token was granted
doRequestUnlimited(c, url, status, body) ==
    IF status # 200
    THEN callResult([c EXCEPT !.rl = acquire(@, c.now)], "GitHub API error", 0, "", 1, FALSE)
    ELSE callResult([c EXCEPT !.rl = acquire(@, c.now)], "", body, parseNextLink(body), 1,
                    FALSE)

\* doRequest: acquire, then one request; any status but 200 is an error
doRequest(c, url, status, body) ==
    IF ~acquired(c.rl, c.now)
    THEN callResult([c EXCEPT !.rl = acquire(@, c.now)], "rate limit exceeded", 0, "", 0,
                    FALSE)
    ELSE IF status # 200
    THEN callResult([c EXCEPT !.rl = acquire(@, c.now)], "GitHub API error", 0, "", 1, FALSE)
    ELSE callResult([c EXCEPT !.rl = acquire(@, c.now)], "", body, parseNextLink(body), 1,
                    FALSE)

\* the request of get and the cache write after a 200
getFetched(r, url) ==
    IF r.err # "" THEN [r EXCEPT !.nextURL = ""]
    ELSE [r EXCEPT !.c = cachePut(r.c, url, "bytes", r.data, ""), !.nextURL = ""]

\* get: a fresh entry holding bytes is returned; an entry of the other type makes the
\* second RUnlock fail; else acquire and request as doRequest does
get(c, url, status, body) ==
    IF cacheFresh(c, url)
    THEN IF c.cache[url].kind = "bytes"
         THEN callResult(c, "", c.cache[url].data, "", 0, TRUE)
         ELSE callResult(c, "fatal error: sync: RUnlock of unlocked RWMutex", 0, "", 0, TRUE)
    ELSE getFetched(doRequest(c, url, status, body), url)

pageFetched(r, url) ==
    IF r.err # "" THEN r
    ELSE [r EXCEPT !.c = cachePut(r.c, url, "page", r.data, r.nextURL)]

\* getWithPagination: the same over paginatedResponse entries and doRequest
getWithPagination(c, url, status, body) ==
    IF cacheFresh(c, url)
    THEN IF c.cache[url].kind = "page"
         THEN callResult(c, "", c.cache[url].data, c.cache[url].nextURL, 0, TRUE)
         ELSE callResult(c, "fatal error: sync: RUnlock of unlocked RWMutex", 0, "", 0, TRUE)
    ELSE pageFetched(doRequest(c, url, status, body), url)

archiveFetched(r, status) ==
    IF r.requests = 1 /\ status \in {403, 404, 409}
    THEN [r EXCEPT !.err = "repository content unavailable"]
    ELSE [r EXCEPT !.nextURL = ""]

\* getArchive: acquire and request, without the cache
getArchive(c, url, status, body) == archiveFetched(doRequest(c, url, status, body), status)

\* what the model remembers of a URL: when it was last fetched with success since the
\* cache was cleared, and what the upstream sent
NotFetched == [at |-> -1, data |-> 0, nextURL |-> ""]

ClientCall(op, url, r) ==
    /\ last.calls < MaxCalls
    /\ pass' = r.c
    /\ reply' = [tool |-> op, url |-> url, err |-> r.err, data |-> r.data,
                 nextURL |-> r.nextURL, requests |-> r.requests, hit |-> r.hit,
                 granted |-> pass.rl.tokens # r.c.rl.tokens]
    /\ last' = [calls  |-> last.calls + 1,
                stored |-> IF url \in DOMAIN last.stored /\ r.requests = 1 /\ r.err = ""
                           THEN [last.stored EXCEPT ![url] =
                                    [at |-> pass.now, data |-> r.data,
                                     nextURL |-> r.nextURL]]
                           ELSE last.stored]
    /\ UNCHANGED <<db, marker, jobs, workers, progress, alive, lastPass, faults>>

Get(url, status, body) == ClientCall("get", url, get(pass, url, status, body))

GetWithPagination(url, status, body) ==
    ClientCall("getWithPagination", url, getWithPagination(pass, url, status, body))

GetArchive(url, status, body) ==
    ClientCall("getArchive", url, getArchive(pass, url, status, body))

\* clearCache: the map is replaced by an empty one
ClearCache ==
    /\ pass' = [pass EXCEPT !.cache = [u \in DOMAIN @ |-> NoEntry]]
    /\ last' = [last EXCEPT !.stored = [u \in DOMAIN @ |-> NotFetched]]
    /\ UNCHANGED <<db, marker, jobs, workers, progress, alive, reply, lastPass, faults>>

\* time passes for the client
ClientTick ==
    /\ pass.now < MaxClientClock
    /\ pass' = [pass EXCEPT !.now = @ + 1]
    /\ UNCHANGED <<db, marker, jobs, workers, progress, alive, reply, last, lastPass, faults>>

\* a client without a credential whose cache is empty: it is new and its limiter full,
\* or it was built fifty minutes ago and the archive downloads of a sync have left
\* one token
ClientInit ==
    /\ db = EmptyDB
    /\ marker = [r \in Syncable |-> 1]
    /\ jobs = <<>>
    /\ progress = NoProgress
    /\ alive = TRUE
    /\ faults = 0
    /\ reply = [tool |-> ""]
    /\ lastPass = [kind |-> "none", result |-> "", discovered |-> FALSE, failed |-> {},
                   unavailable |-> {}]
    /\ workers = [w \in LimiterWorkers |-> [pc |-> "idle"]]
    /\ last = [calls |-> 0, stored |-> [u \in GetURLs \cup PageURLs |-> NotFetched]]
    /\ \E rl \in {NewRateLimiter("", 0),
                   [NewRateLimiter("", 2 - refillWindow) EXCEPT !.tokens = 1]} :
          pass = [token |-> "", now |-> 0, rl |-> rl,
                  cache |-> [u \in GetURLs \cup PageURLs |-> NoEntry]]

ClientNext ==
    \/ ClientTick
    \/ ClearCache
    \/ \E url \in GetURLs, status \in Statuses200, body \in Bodies : Get(url, status, body)
    \/ \E url \in PageURLs, status \in Statuses200, body \in Bodies :
          GetWithPagination(url, status, body)
    \/ \E url \in ArchiveURLs, status \in ArchiveStatuses, body \in Bodies :
          GetArchive(url, status, body)

SpecClient == ClientInit /\ [][ClientNext]_vars

\* the bucket is empty and the window has not ended
Exhausted == pass.rl.tokens = 0 /\ ~refillDue(pass.rl, pass.now)

\* the result r is a refusal that changed nothing and sent nothing
Refused(r) == r.err = "rate limit exceeded" /\ r.requests = 0 /\ r.c = pass

\* C19: with no token left and the window not ended, acquire fails and leaves the
\* token count and the refill time as they are, and get, getArchive and doRequest
\* answer with the rate-limit error without a request.
C19_FailsAtOnce ==
    Exhausted =>
        /\ ~acquired(pass.rl, pass.now)
        /\ acquire(pass.rl, pass.now) = pass.rl
        /\ \A status \in ArchiveStatuses, body \in Bodies :
              /\ \A url \in GetURLs :
                    ~cacheFresh(pass, url) => Refused(get(pass, url, status, body))
              /\ \A url \in PageURLs :
                    Refused(doRequest(pass, url, status, body))
              /\ \A url \in ArchiveURLs :
                    Refused(getArchive(pass, url, status, body))

\* a call has been refused for want of a token
C19_Witness ==
    /\ Exhausted
    /\ reply.tool \in {"get", "getArchive", "getWithPagination"}
    /\ reply.err = "rate limit exceeded"
    /\ reply.requests = 0
    /\ ~reply.granted

\* url was fetched with success less than ten minutes ago and not cleared since
FetchedLately(url) ==
    last.stored[url].at >= 0 /\ pass.now - last.stored[url].at < cacheTTL

\* the result r returns what was stored for url, without a token and without a request
ServedFromCache(r, url) ==
    /\ r.err = ""
    /\ r.data = last.stored[url].data
    /\ r.nextURL = last.stored[url].nextURL
    /\ r.requests = 0
    /\ r.c = pass

\* the result r comes from a new attempt to fetch: a request, or the limiter's refusal
FetchedAgain(r, body) ==
    \/ r.err = "rate limit exceeded" /\ r.requests = 0
    \/ /\ r.requests = 1
       /\ r.c.rl.tokens = refill(pass.rl, pass.now).tokens - 1
       /\ r.err = "" => r.data = body

MaxDiscoveries == 2

s_ar == <<"a", "r">>

s_em == <<"e", "m">>

\* the repositories of the organisation: those of Repos, an archived and an empty one
ListedRepo(r) ==
    IF r \in Repos THEN Repo(r)
    ELSE IF r = "ar"
    THEN [id |-> r, name |-> s_terraform_azure_dash \o s_ar, private |-> FALSE,
          archived |-> TRUE, size |-> 1]
    ELSE [id |-> r, name |-> s_terraform_azure_dash \o s_em, private |-> FALSE,
          archived |-> FALSE, size |-> 0]

page(rs, json) == [repos |-> rs, json |-> json]

\* the ways the upstream pages its listing; one page may be no JSON array
Layouts ==
    { <<page(<<"docs", "kv", "pv", "ar", "sa", "em">>, TRUE)>>,
      <<page(<<"docs", "kv", "pv">>, TRUE), page(<<"ar", "sa", "em">>, TRUE)>>,
      <<page(<<"sa", "docs">>, TRUE), page(<<"pv", "kv">>, TRUE), page(<<"em", "ar">>, TRUE)>>,
      <<page(<<"kv">>, TRUE), page(<<"sa">>, FALSE)>>,
      <<page(<<>>, TRUE)>> }

PageNumber(url) == IF url = "repos" THEN 1 ELSE IF url = "repos?page=2" THEN 2 ELSE 3

DiscoverURLs == {"repos", "repos?page=2", "repos?page=3"}

\* what the upstream sends for a URL: the Link header of the page
LinkOf(layout, url) == IF PageNumber(url) < Len(layout) THEN PageNumber(url) + 1 ELSE 1

\* a variant of the filter that lets archived repositories through
keepRepoArchived(repo) ==
    HasPrefix(repo.name, s_terraform_azure_dash) /\ ~repo.private /\ repo.size > 0

\* the filter of fetchRepositories
keepRepo(repo) ==
    /\ HasPrefix(repo.name, s_terraform_azure_dash)
    /\ ~repo.private
    /\ ~repo.archived
    /\ repo.size > 0

filterRepos(allRepos) ==
    LET Keep(r) == keepRepo(ListedRepo(r)) IN SelectSeq(allRepos, Keep)

\* the loop of fetchRepositories after getWithPagination has answered r for the page
pageFetchedInto(st, r, pg) ==
    IF r.err # "" THEN [st EXCEPT !.pc = "failed", !.err = r.err, !.result = <<>>]
    ELSE IF ~pg.json
    THEN [st EXCEPT !.pc = "failed", !.err = "invalid character", !.result = <<>>]
    ELSE [st EXCEPT !.allRepos = @ \o pg.repos, !.url = r.nextURL,
                    !.pc = IF r.nextURL = "" THEN "filter" ELSE "fetch"]

discoverRest == <<db, marker, jobs, workers, progress, alive, last, lastPass, faults>>

\* one round of the loop: the page at the current URL is asked for
FetchPage(status) ==
    /\ reply.pc = "fetch"
    /\ reply' = pageFetchedInto(reply,
                    getWithPagination(pass, reply.url, status, LinkOf(reply.layout, reply.url)),
                    reply.layout[PageNumber(reply.url)])
    /\ pass' = getWithPagination(pass, reply.url, status, LinkOf(reply.layout, reply.url)).c
    /\ UNCHANGED discoverRest

\* the loop has ended: the filter, and the return
FilterRepos ==
    /\ reply.pc = "filter"
    /\ reply' = [reply EXCEPT !.pc = "done", !.result = filterRepos(reply.allRepos)]
    /\ UNCHANGED <<pass, discoverRest>>

\* fetchRepositories is called again, by the next pass
DiscoverAgain ==
    /\ reply.pc \in {"done", "failed"}
    /\ reply.n < MaxDiscoveries
    /\ reply' = [reply EXCEPT !.pc = "fetch", !.url = "repos", !.allRepos = <<>>,
                              !.result = <<>>, !.err = "", !.n = @ + 1]
    /\ UNCHANGED <<pass, discoverRest>>

DiscoverTick ==
    /\ ClientTick
    /\ reply.pc \in {"done", "failed"}

DiscoverInit ==
    /\ db = EmptyDB
    /\ marker = [r \in Syncable |-> 1]
    /\ jobs = <<>>
    /\ progress = NoProgress
    /\ alive = TRUE
    /\ faults = 0
    /\ lastPass = [kind |-> "none", result |-> "", discovered |-> FALSE, failed |-> {},
                   unavailable |-> {}]
    /\ workers = [w \in LimiterWorkers |-> [pc |-> "idle"]]
    /\ last = [calls |-> 0, stored |-> [u \in DiscoverURLs |-> NotFetched]]
    /\ \E rl \in {NewRateLimiter("", 0),
                   [NewRateLimiter("", 2 - refillWindow) EXCEPT !.tokens = 1]} :
          pass = [token |-> "", now |-> 0, rl |-> rl,
                  cache |-> [u \in DiscoverURLs |-> NoEntry]]
    /\ \E layout \in Layouts :
          reply = [pc |-> "fetch", url |-> "repos", allRepos |-> <<>>, result |-> <<>>,
                   err |-> "", n |-> 1, layout |-> layout]

DiscoverNext ==
    \/ \E status \in Statuses200 : FetchPage(status)
    \/ FilterRepos
    \/ DiscoverAgain
    \/ DiscoverTick

\* the goroutine that runs fetchRepositories keeps running
SpecDiscover ==
    /\ DiscoverInit
    /\ [][DiscoverNext]_vars
    /\ WF_vars(\E status \in Statuses200 : FetchPage(status))
    /\ WF_vars(FilterRepos)

RECURSIVE AllPages(_)
\* the repositories of all pages, in the order received
AllPages(layout) ==
    IF layout = <<>> THEN <<>> ELSE layout[1].repos \o AllPages(Tail(layout))

Wanted(r) ==
    /\ HasPrefix(ListedRepo(r).name, s_terraform_azure_dash)
    /\ ~ListedRepo(r).private
    /\ ~ListedRepo(r).archived
    /\ ListedRepo(r).size > 0

DiscoveryResult ==
    /\ reply.pc = "done" =>
          /\ reply.result = SelectSeq(AllPages(reply.layout), Wanted)
          /\ reply.err = ""
          /\ \A i \in 1..Len(reply.layout) : reply.layout[i].json
    /\ reply.pc = "failed" => reply.result = <<>> /\ reply.err # ""
    /\ reply.pc = "fetch" => reply.url # ""
    /\ reply.pc = "filter" => reply.url = "" /\ reply.allRepos = AllPages(reply.layout)

\* C21: discovery follows the next links until a page has none, then ends and returns
\* in the order received exactly the repositories with the module prefix that are not
\* private, not archived and of size > 0; an error on a page makes it fail with no list.
C21_Discovery ==
    /\ []DiscoveryResult
    /\ (reply.pc = "fetch") ~> (reply.pc \in {"done", "failed"})

\* a listing of three pages has been followed to its end
C21_Witness ==
    /\ reply.pc = "done"
    /\ Len(reply.layout) = 3
    /\ reply.result = <<"sa", "kv">>

\* ---------------------------------------------------------------------------
\* The work queue of a pass (sync.go: processRepoQueue)
\* ---------------------------------------------------------------------------

\* the workers that hold a repository
Busy == {w \in Workers : workers[w].pc \notin {"off", "idle"}}

\* the pipelines of the pass that have been reported
PipelinesRun == progress.processed - progress.skipped

\* every repository of the pass is in one place only: skipped, queued, held by one
\* worker, or reported; and the error list has at most one entry per reported pipeline
QueueAccounts ==
    pass.phase = "run" =>
        /\ \A i, j \in 1..Len(pass.queue) : pass.queue[i] = pass.queue[j] => i = j
        /\ \A v, w \in Busy : workers[v].repo = workers[w].repo => v = w
        /\ \A w \in Busy : workers[w].repo \notin Range(pass.queue)
        /\ \A w \in Busy : workers[w].repo \notin lastPass.failed
        /\ progress.processed + Len(pass.queue) + Cardinality(Busy) = progress.total
        /\ Len(progress.errors) <= PipelinesRun
        /\ Len(progress.errors) = Cardinality(lastPass.failed)

\* the step by which processRepoQueue and the pass return
QueueReturns == pass.phase = "run" /\ pass'.phase = "none" /\ lastPass'.result = "ok"

\* a pass returns only with the queue drained and no repository held, and then every
\* repository has been counted once
ReturnsDrained ==
    QueueReturns =>
        /\ pass.queue = <<>> /\ Busy = {}
        /\ progress.processed = progress.total
        /\ progress.skipped + PipelinesRun = progress.total
        /\ Len(progress.errors) <= PipelinesRun
        /\ progress' = progress

\* a repository is taken from the queue by one worker, and a report counts one pipeline
CountsOnce ==
    /\ pass.phase = "run" /\ pass'.phase = "run" =>
          /\ progress'.processed \in {progress.processed, progress.processed + 1}
          /\ progress'.processed = progress.processed + 1 =>
                Cardinality(Busy') = Cardinality(Busy) - 1 /\ pass'.queue = pass.queue
          /\ Len(pass'.queue) < Len(pass.queue) =>
                /\ pass'.queue = Tail(pass.queue)
                /\ Cardinality(Busy') = Cardinality(Busy) + 1
                /\ \E w \in Busy' \ Busy : workers'[w].repo = Head(pass.queue)

\* C22: under any interleaving of the workers of a pass every queued repository is
\* processed by one worker once, no update of a counter is lost, the pass returns when
\* the queue is drained, and then processed = total, skipped + pipelines run = total
\* and the error list has at most one entry per pipeline run.
C22_QueueProcessedOnce ==
    /\ []QueueAccounts
    /\ [][ReturnsDrained /\ CountsOnce]_vars

\* an incremental pass over a skipped and a queued repository has returned
C22_Witness ==
    /\ PassOver /\ lastPass.kind = "incremental"
    /\ progress.total = 2 /\ progress.skipped = 1 /\ progress.processed = 2
    /\ Len(progress.updated) = 1

\* ---------------------------------------------------------------------------
\* The order of the steps of one pipeline (sync.go: syncRepository)
\* ---------------------------------------------------------------------------

PipelineOrder == <<"meta", "clear", "readme", "archive", "index", "tags", "aliases">>

\* the steps worker w has ended are the first steps of the pipeline, and the step it is
\* in is the next one, unless the pipeline has stopped
StepsInOrder(w) ==
    /\ Len(workers[w].steps) <= Len(PipelineOrder)
    /\ workers[w].steps = SubSeq(PipelineOrder, 1, Len(workers[w].steps))
    /\ workers[w].pc \notin {"report", "panicked"} =>
          /\ Len(workers[w].steps) < Len(PipelineOrder)
          /\ workers[w].pc = PipelineOrder[Len(workers[w].steps) + 1]

\* the module of worker w and the submodules its ingestion has found
ModulesOf(w) == {workers[w].mid} \cup Range(workers[w].subs)

FileRowsOf(d, ids) == {i \in 1..Len(d.files) : d.files[i].mid \in ids}

IndexRowsOf(d, ids) ==
    Cardinality({i \in 1..Len(d.blocks) : d.blocks[i].mid \in ids})
    + Cardinality({r \in BagToSet(d.rows) : r.mid \in ids})

TagsOf(d, ids) == {x \in d.tags : x.mid \in ids}

AliasesIn(d, ids) == {x \in d.aliases : x.mid \in ids}

\* what a step of the pipeline of worker w may write: files during the ingestion only,
\* index rows during the indexing only, tags in the tag step, aliases in the alias step
WritesInStep(w) ==
    LET ids == {workers'[w].mid} \cup Range(workers'[w].subs)
    IN  /\ Cardinality(FileRowsOf(db', ids)) > Cardinality(FileRowsOf(db, ids)) =>
              workers[w].pc = "archive"
        /\ IndexRowsOf(db', ids) > IndexRowsOf(db, ids) => workers[w].pc = "index"
        /\ TagsOf(db', ids) \ TagsOf(db, ids) # {} => workers[w].pc = "tags"
        /\ AliasesIn(db', ids) \ AliasesIn(db, ids) # {} =>
              workers[w].pc = "aliases" /\ "tags" \in Range(workers[w].steps)

PipelineStep ==
    \A w \in Workers :
        (workers[w].pc \notin {"off", "idle"} /\ workers'[w].pc \notin {"off", "idle"}
         /\ workers'[w].repo = workers[w].repo) => WritesInStep(w)

\* after the clear and before the ingestion the module has no file and no index row,
\* and before the alias step of a pipeline the aliases of its submodules are not there
OrderedState ==
    \A w \in Workers :
        /\ workers[w].pc \notin {"off", "idle"} => StepsInOrder(w)
        /\ Cleared(w) => ClearedTableRows(db, workers[w].mid) = 0
        /\ workers[w].pc \in {"index", "tags", "aliases"} =>
              AliasesIn(db, Range(workers[w].subs)) = {}
        /\ workers[w].pc \in {"index", "tags"} => TagsOf(db, Range(workers[w].subs)) = {}

\* C23: the steps of a pipeline happen in the order metadata, clear, readme, archive,
\* indexing and examples flag, tags, aliases, each after the previous has ended; no
\* file row is written before the clear and aliases are derived after the tags.
C23_PipelineOrder == []OrderedState /\ [][PipelineStep]_vars

\* a pipeline has gone through every step for a module with a submodule
C23_Witness ==
    \E w \in Workers :
        /\ workers[w].pc = "report"
        /\ workers[w].steps = PipelineOrder
        /\ workers[w].subs # <<>>
        /\ AliasesIn(db, Range(workers[w].subs)) # {}
        /\ TagsOf(db, {workers[w].mid}) # {}

\* ---------------------------------------------------------------------------
\* Archive ingestion entry by entry (sync.go: processArchiveEntries)
\* ---------------------------------------------------------------------------

MaxEntries == 3

a_main == [name |-> <<"t", "/", "m", "a", "i", "n", ".", "t", "f">>, reg |-> TRUE, content |-> <<>>]

a_sub == [name |-> <<"t", "/", "m", "o", "d", "u", "l", "e", "s", "/", "a", "/", "m", "a", "i", "n", ".", "t", "f">>, reg |-> TRUE, content |-> <<>>]

a_sub2 == [name |-> <<"t", "/", "m", "o", "d", "u", "l", "e", "s", "/", "a", "/", "b", ".", "t", "f">>, reg |-> TRUE, content |-> <<>>]

a_loose == [name |-> <<"t", "/", "m", "o", "d", "u", "l", "e", "s", "/", "x", ".", "m", "d">>, reg |-> TRUE, content |-> <<>>]

a_git == [name |-> <<"t", "/", ".", "g", "i", "t", "/", "c", "o", "n", "f", "i", "g">>, reg |-> TRUE, content |-> <<>>]

a_deep == [name |-> <<"t", "/", "m", "o", "d", "u", "l", "e", "s", "/", "a", "/", ".", "t", "e", "r", "r", "a", "f", "o", "r", "m", "/", "m", ".", "t", "f">>, reg |-> TRUE, content |-> <<>>]

a_example == [name |-> <<"t", "/", "e", "x", "a", "m", "p", "l", "e", "s", "/", "e", ".", "t", "f">>, reg |-> TRUE, content |-> <<>>]

a_bare == [name |-> <<"t">>, reg |-> TRUE, content |-> <<>>]

a_dir == [name |-> <<"t", "/", "m", "o", "d", "u", "l", "e", "s", "/", "b", "/">>, reg |-> FALSE, content |-> <<>>]

a_last == [name |-> <<"t", "/", "d", "o", "c", "s", "/", "n", "o", "d", "e", "_", "m", "o", "d", "u", "l", "e", "s">>, reg |-> TRUE, content |-> <<>>]

\* the tar entries an archive is made of: files of the root, of a submodule, of the
\* examples, a file directly in modules/, entries in skipped directories at the top and
\* deeper, as the last segment, an entry without a directory, and a directory entry
ArchiveEntries == {a_main, a_sub, a_sub2, a_loose, a_git, a_deep, a_example, a_bare, a_dir, a_last}

\* the archives of MaxEntries entries
Archives == [1..MaxEntries -> ArchiveEntries]

\* reply is the loop of processArchiveEntries: the archive, the number of entries read,
\* the module of the repository, and the ingestion state without its store, which is db
IngestInit ==
    /\ InitRest
    /\ db = InsertModule(EmptyDB, [name |-> n_kv, lastUpdated |-> 1, readme |-> <<>>,
                                   hasExamples |-> FALSE])
    /\ \E entries \in Archives :
          reply = [pc |-> "read", entries |-> entries, n |-> 0, moduleID |-> 1,
                   examples |-> FALSE, subs |-> << >>, order |-> <<>>]

IngestState == [db |-> db, examples |-> reply.examples, subs |-> reply.subs,
                order |-> reply.order]

entryRead(st) ==
    /\ db' = st.db
    /\ reply' = [reply EXCEPT !.n = @ + 1, !.examples = st.examples, !.subs = st.subs,
                              !.order = st.order]
    /\ UNCHANGED rest

\* tarReader.Next delivers the next entry and the loop body handles it
ReadEntry ==
    /\ reply.pc = "read"
    /\ reply.n < Len(reply.entries)
    /\ entryRead(IngestEntry(IngestState, reply.moduleID, [name |-> n_kv, updatedAt |-> 1],
                             reply.entries[reply.n + 1]))

\* tarReader.Next delivers io.EOF: the loop ends and the function returns
EndOfArchive ==
    /\ reply.pc = "read"
    /\ reply.n = Len(reply.entries)
    /\ reply' = [reply EXCEPT !.pc = "returned"]
    /\ UNCHANGED <<db, rest>>

IngestNext == ReadEntry \/ EndOfArchive

SpecIngest == IngestInit /\ [][IngestNext]_vars

\* the stripped paths of the regular-file entries read so far
PathsRead == {normalizeArchivePath(reply.entries[i].name) :
                i \in {j \in 1..reply.n : reply.entries[j].reg}} \ {<<>>}

HasSkippedSegment(p) == \E k \in 1..Len(Split(p, s_slash)) : Split(p, s_slash)[k] \in skipDirs

StoredUnder(p) == {db.files[i].mid : i \in {j \in 1..Len(db.files) : db.files[j].path = p}}

SubmoduleIDs(key) == {m.id : m \in ModuleNamed(db, SubmoduleName(n_kv, key))}

\* the path has the form modules/<key>/...
SubmoduleForm(parts) == Len(parts) >= 3 /\ parts[1] = <<"m", "o", "d", "u", "l", "e", "s">>

\* the path starts with modules/
ModulesPrefix(parts) == Len(parts) >= 2 /\ parts[1] = <<"m", "o", "d", "u", "l", "e", "s">>

ClaimedHome(parts) == IF SubmoduleForm(parts) THEN SubmoduleIDs(parts[2]) ELSE {reply.moduleID}

PrefixHome(parts) == IF ModulesPrefix(parts) THEN SubmoduleIDs(parts[2]) ELSE {reply.moduleID}

\* C24: an entry with .git, .github, node_modules or .terraform as a segment of its
\* stripped path is stored nowhere; every other regular file is stored under the
\* submodule of its key when its path has the form modules/<key>/... and under the
\* root module otherwise.
C24_StoredByForm ==
    \A p \in PathsRead :
        IF HasSkippedSegment(p) THEN StoredUnder(p) = {}
        ELSE StoredUnder(p) # {} /\ StoredUnder(p) = ClaimedHome(Split(p, s_slash))

\* an entry with a skipped directory name as a segment at any depth is stored nowhere
C24_SkippedNowhere ==
    /\ \A p \in PathsRead : HasSkippedSegment(p) => StoredUnder(p) = {}
    /\ \A i \in 1..Len(db.files) : ~HasSkippedSegment(db.files[i].path)

\* every other regular file is stored under the submodule named by the second segment
\* whenever its path starts with modules/, and under the root module otherwise
C24_StoredByPrefix ==
    \A p \in PathsRead :
        ~HasSkippedSegment(p) =>
            StoredUnder(p) # {} /\ StoredUnder(p) = PrefixHome(Split(p, s_slash))

\* the record of a submodule key is created once in a pass: the keys seen, the ids in
\* creation order and the submodule rows of the store correspond one to one
C24_SubmoduleOnce ==
    /\ Len(reply.order) = Cardinality(DOMAIN reply.subs)
    /\ Cardinality(Range(reply.order)) = Len(reply.order)
    /\ Cardinality(db.modules) = 1 + Len(reply.order)
    /\ \A key \in DOMAIN reply.subs : SubmoduleIDs(key) = {reply.subs[key]}

\* two files of one submodule have been read
C24_SubmoduleReused ==
    /\ reply.pc = "returned"
    /\ Len(reply.order) = 1
    /\ \E i \in 1..Len(db.files) : \E j \in 1..Len(db.files) :
          i # j /\ db.files[i].mid = reply.order[1] /\ db.files[j].mid = reply.order[1]

\* ---------------------------------------------------------------------------
\* The literal scan iteration by iteration (server.go: extractPatternMatches)
\* ---------------------------------------------------------------------------

\* the matches a scan may collect before the model stops following it
MaxMatches == 4

k_two == <<"a", " ", "a", " ", "{", "\n", "}">>

k_in == <<"a", " ", "{", "\n", " ", "a", "\n", "}">>

k_sep == <<"a", " ", "{", "\n", "}", "\n", "b", " ", "{", "\n", "}">>

k_nest == <<"a", " ", "{", "\n", " ", "b", " ", "{", "\n", " ", "}", "\n", "}", "\n", "b">>

k_none == <<"a", " ", "b">>

k_empty == <<>>

k_close == <<"a", " ", "}", "\n", "{", "\n", "}">>

q_brace == <<"{">>

q_a == <<"a">>

q_b == <<"b">>

q_open == <<"a", " ", "{">>

q_z == <<"z">>

q_empty == <<>>

\* file contents: two occurrences on the line that opens one block, an occurrence
\* inside a block, two blocks, nested blocks, no block, the empty file, a closing brace
\* before the block
ScanContents == {k_two, k_in, k_sep, k_nest, k_none, k_empty, k_close}

\* patterns: words of the contents, a word with the brace, the brace, an absent word,
\* the empty one
ScanPatterns == {q_a, q_b, q_open, q_brace, q_z, q_empty}

\* reply is the loop of extractPatternMatches: content, pattern, offset, matches; found
\* holds for each occurrence met its place, startIdx, endIdx and whether it was appended
ScanInit ==
    /\ InitRest
    /\ db = EmptyDB
    /\ \E content \in ScanContents, pattern \in ScanPatterns :
          reply = [pc |-> "scan", content |-> content, pattern |-> pattern, offset |-> 0,
                   matches |-> <<>>, found |-> {}]

scanReturns ==
    /\ reply' = [reply EXCEPT !.pc = "returned"]
    /\ UNCHANGED <<db, rest>>

\* the rest of one iteration once the occurrence at actualIdx has startIdx and endIdx
scanOccurrence(actualIdx, startIdx, endIdx) ==
    /\ reply' = [reply EXCEPT
                   !.matches = literalFound(reply.content, startIdx, endIdx, @),
                   !.found = @ \cup {[at |-> actualIdx, startIdx |-> startIdx,
                                       endIdx |-> endIdx, kept |-> endIdx > startIdx]},
                   !.offset = actualIdx + Len(reply.pattern),
                   !.pc = IF actualIdx + Len(reply.pattern) >= Len(reply.content)
                          THEN "returned" ELSE "scan"]
    /\ UNCHANGED <<db, rest>>

scanAt(actualIdx) ==
    scanOccurrence(actualIdx, LineStart(reply.content, actualIdx),
                   findBlockEnd(reply.content, actualIdx))

scanIdx(idx) == IF idx = -1 THEN scanReturns ELSE scanAt(reply.offset + idx)

\* one iteration of the loop of extractPatternMatches
ScanStep ==
    /\ reply.pc = "scan"
    /\ Len(reply.matches) < MaxMatches
    /\ scanIdx(Index(Slice(reply.content, reply.offset, Len(reply.content)), reply.pattern))

\* the caller takes the matches
ScanDone ==
    /\ reply.pc = "returned"
    /\ reply' = [reply EXCEPT !.pc = "taken"]
    /\ UNCHANGED <<db, rest>>

ScanNext == ScanStep \/ ScanDone

\* the goroutine of the request runs until it returns
SpecScan == ScanInit /\ [][ScanNext]_vars /\ WF_vars(ScanStep) /\ WF_vars(ScanDone)

\* the scan has returned what the function returns on the same input
ScanAgrees ==
    reply.pc \in {"returned", "taken"} /\ reply.pattern # <<>> =>
        reply.matches = extractPatternMatches(reply.content, reply.pattern)

\* the first opening brace at or after byte pos, or -1
FirstOpen(content, pos) == MinOr({i \in pos..(Len(content) - 1) : content[i + 1] = "{"}, -1)

Braces(content, a, b, c) == Cardinality({i \in a..b : content[i + 1] = c})

\* the closing brace that matches the brace opened at byte open, or -1
MatchOf(content, open) ==
    MinOr({j \in (open + 1)..(Len(content) - 1) :
             content[j + 1] = "}" /\ Braces(content, open, j, "{") = Braces(content, open, j, "}")},
          -1)

\* the first byte of the line of byte pos, and the end of the line of byte pos
LineBegin(content, pos) ==
    -MinOr({-(i + 1) : i \in {j \in 0..(pos - 1) : content[j + 1] = "\n"}}, 0)

LineEnd(content, pos) == MinOr({i \in pos..(Len(content) - 1) : content[i + 1] = "\n"}, Len(content))

\* the occurrence at byte pos has a brace opened at or after it, and that brace is closed
Expands(content, pos) ==
    FirstOpen(content, pos) >= 0 /\ MatchOf(content, FirstOpen(content, pos)) >= 0

\* from the start of the line of the occurrence to the end of the line of the closing
\* brace that matches the first brace opened at or after the occurrence
RegionOf(content, pos) ==
    [from |-> LineBegin(content, pos),
     to |-> LineEnd(content, MatchOf(content, FirstOpen(content, pos)))]

RegionText(content, pos) ==
    TrimSpace(Slice(content, RegionOf(content, pos).from, RegionOf(content, pos).to))

RECURSIVE InOrder(_)
\* the occurrences of S from the first to the last
InOrder(S) ==
    IF S = {} THEN <<>>
    ELSE LET first == CHOOSE o \in S : \A p \in S : o.at <= p.at
         IN  <<first>> \o InOrder(S \ {first})

\* the occurrences met whose text was returned, in order
Kept == InOrder({o \in reply.found : o.kept})

\* every returned text is the region of its occurrence
RegionsReturned ==
    /\ Len(Kept) = Len(reply.matches)
    /\ \A k \in 1..Len(Kept) :
          Expands(reply.content, Kept[k].at) =>
              reply.matches[k] = RegionText(reply.content, Kept[k].at)

\* no region is returned for two occurrences
RegionsOnce ==
    \A k \in 1..Len(Kept) : \A l \in 1..Len(Kept) :
        (k # l /\ Expands(reply.content, Kept[k].at) /\ Expands(reply.content, Kept[l].at)) =>
            RegionOf(reply.content, Kept[k].at) # RegionOf(reply.content, Kept[l].at)

\* C25: the literal search returns for each occurrence of the pattern the text from the
\* start of its line to the end of the line of the closing brace that matches the first
\* brace opened at or after it, and returns each such region once.
C25_EachRegionOnce ==
    (reply.pattern # <<>> /\ reply.pc \in {"returned", "taken"}) =>
        RegionsReturned /\ RegionsOnce

\* an occurrence that is followed by an opening brace before any closing one, and whose
\* brace is closed, yields the text of its region
C25_RegionOfOccurrence ==
    reply.pattern # <<>> =>
        \A o \in reply.found :
            LET open == FirstOpen(reply.content, o.at)
            IN  (Expands(reply.content, o.at)
                 /\ Braces(reply.content, o.at, open, "}") = 0) =>
                    /\ o.kept
                    /\ TrimSpace(Slice(reply.content, o.startIdx, o.endIdx))
                          = RegionText(reply.content, o.at)

\* an iteration that goes on to another one has moved the search offset forward
OffsetAdvances ==
    (reply.pc = "scan" /\ reply'.pc = "scan") => reply'.offset > reply.offset

\* C27: the literal scan advances its search offset by at least one byte on every
\* iteration and returns, for every pattern, the empty one included, and every content.
C27_ScanTerminates ==
    [][OffsetAdvances]_vars /\ ((reply.pc = "scan") ~> (reply.pc = "returned"))

\* with a pattern of at least one byte every iteration advances the offset
C27_NonEmptyAdvances == [][reply.pattern # <<>> => OffsetAdvances]_vars

\* with a pattern of at least one byte, or an empty content, the scan returns
C27_NonEmptyTerminates ==
    (reply.pc = "scan" /\ (reply.pattern # <<>> \/ reply.content = <<>>))
        ~> (reply.pc = "returned")

\* the scan of an empty pattern over a content of some bytes stays at offset 0
C27_EmptyPatternStays ==
    (reply.pattern = <<>> /\ reply.content # <<>>) => reply.pc = "scan" /\ reply.offset = 0

\* ---------------------------------------------------------------------------
\* A failed pipeline and the next incremental pass
\* ---------------------------------------------------------------------------

\* the last pipeline of repository r ended with an error at upstream marker seen, and
\* the store d holds its metadata row with that marker and no file of the module
FailedAfterMetadata(d, r, seen) ==
    /\ ~last[r].ok /\ last[r].marker = seen
    /\ \E m \in ModuleNamed(d, Repo(r).name) :
          m.lastUpdated = seen /\ FileRowsOf(d, {m.id}) = {}

Compared == pass.kind = "incremental" /\ pass.phase \in {"run", "return"}

\* C26: a repository whose pipeline ended with an error after its metadata row was
\* written is put in the queue by the next incremental pass that sees the same upstream
\* marker, and is not counted as skipped.
C26_FailedRetried ==
    Compared =>
        \A i \in 1..Len(terraformRepos) :
            FailedAfterMetadata(pass.snap, terraformRepos[i], pass.seen[terraformRepos[i]])
                => terraformRepos[i] \notin pass.skipped

\* such a repository is counted as skipped by that pass, and its module keeps having
\* no file while the pass runs
C26_FailedSkipped ==
    Compared =>
        \A i \in 1..Len(terraformRepos) :
            FailedAfterMetadata(pass.snap, terraformRepos[i], pass.seen[terraformRepos[i]])
                => /\ terraformRepos[i] \in pass.skipped
                   /\ FailedAfterMetadata(db, terraformRepos[i], pass.seen[terraformRepos[i]])

\* ---------------------------------------------------------------------------
\* The updated-repo list of a pass
\* ---------------------------------------------------------------------------

UpdatedRepos == Range(progress.updated)

IncrementalOver == PassOver /\ lastPass.kind = "incremental"

\* C28: when an incremental pass ends, its updated-repo list holds exactly the
\* repositories whose pipeline ran to completion in the pass and whose module row is in
\* the store; a repository skipped as up to date, skipped as unavailable or failed is
\* not in it; a full pass leaves the list empty.
C28_UpdatedList ==
    /\ IncrementalOver =>
          /\ UpdatedRepos \cap (lastPass.failed \cup lastPass.unavailable) = {}
          /\ \A r \in UpdatedRepos : ModuleNamed(db, Repo(r).name) # {}
          /\ Len(progress.updated)
                = progress.total - progress.skipped - Cardinality(lastPass.failed)
                  - Cardinality(lastPass.unavailable)
    /\ Compared => UpdatedRepos \cap pass.skipped = {}
    /\ (PassOver /\ lastPass.kind = "full") => progress.updated = <<>>

\* the list holds each repository whose pipeline returned no error once, the unavailable
\* ones included, whose module row is not in the store; it holds no failed and no
\* up-to-date repository, and a full pass leaves it empty
C28_UpdatedOrUnavailable ==
    /\ IncrementalOver =>
          /\ UpdatedRepos \cap lastPass.failed = {}
          /\ lastPass.unavailable \subseteq UpdatedRepos
          /\ \A r \in UpdatedRepos :
                ModuleNamed(db, Repo(r).name) # {} <=> r \notin lastPass.unavailable
          /\ Cardinality(UpdatedRepos) = Len(progress.updated)
          /\ Len(progress.updated)
                = progress.total - progress.skipped - Cardinality(lastPass.failed)
    /\ Compared => UpdatedRepos \cap pass.skipped = {}
    /\ (PassOver /\ lastPass.kind = "full") => progress.updated = <<>>

\* ---------------------------------------------------------------------------
\* The cache read lock of get and getWithPagination (sync.go: cacheMutex)
\* ---------------------------------------------------------------------------

Goroutines == {1, 2}

LockURLs == {"u"}

CacheOps == {"get", "getWithPagination"}

\* the dynamic type of entry.Data that each function stores and accepts
DataOf(op) == IF op = "get" THEN "bytes" ELSE "paginatedResponse"

IdleCall == [pc |-> "idle", op |-> "", url |-> "", acquired |-> 0, released |-> 0]

\* pass is the cache (the type of each entry and whether it has expired), workers are
\* the goroutines inside get or getWithPagination with the read locks the running call
\* has acquired and released, last is the reader count of the sync.RWMutex and whether
\* a call has met an unexpired entry of the other function
LockInit ==
    /\ db = EmptyDB /\ reply = NoReply /\ marker = [r \in Syncable |-> 1] /\ jobs = <<>>
    /\ progress = NoProgress /\ faults = 0 /\ alive = TRUE
    /\ lastPass = [kind |-> "none", result |-> "", discovered |-> FALSE, failed |-> {},
                   unavailable |-> {}]
    /\ pass = [url \in LockURLs |-> [kind |-> "none", fresh |-> FALSE]]
    /\ workers = [g \in Goroutines |-> IdleCall]
    /\ last = [readers |-> 0, crossed |-> FALSE]

lockRest == <<db, marker, jobs, progress, reply, lastPass, faults>>

\* a goroutine enters get(url) or getWithPagination(url)
CallCache(g, op, url) ==
    /\ alive /\ workers[g].pc = "idle"
    /\ workers' = [workers EXCEPT ![g] = [IdleCall EXCEPT !.pc = "rlock", !.op = op,
                                                           !.url = url]]
    /\ UNCHANGED <<pass, last, alive, lockRest>>

\* gc.cacheMutex.RLock()
RLock(g) ==
    /\ alive /\ workers[g].pc = "rlock"
    /\ last' = [last EXCEPT !.readers = @ + 1]
    /\ workers' = [workers EXCEPT ![g].pc = "lookup", ![g].acquired = @ + 1]
    /\ UNCHANGED <<pass, alive, lockRest>>

Hit(g) == pass[workers[g].url].kind # "none" /\ pass[workers[g].url].fresh

\* entry, exists := gc.cache[url]; exists && time.Now().Before(entry.ExpiresAt)
Lookup(g) ==
    /\ alive /\ workers[g].pc = "lookup"
    /\ workers' = [workers EXCEPT ![g].pc = IF Hit(g) THEN "hit" ELSE "unlock"]
    /\ last' = [last EXCEPT !.crossed =
                  @ \/ (Hit(g) /\ pass[workers[g].url].kind # DataOf(workers[g].op))]
    /\ UNCHANGED <<pass, alive, lockRest>>

\* sync.RWMutex.RUnlock by goroutine g going on to pc: a fatal error of the runtime
\* when no reader holds the lock
runlock(g, pc) ==
    IF last.readers = 0
    THEN /\ alive' = FALSE
         /\ workers' = [workers EXCEPT ![g].released = @ + 1]
         /\ UNCHANGED last
    ELSE /\ last' = [last EXCEPT !.readers = @ - 1]
         /\ alive' = alive
         /\ workers' = [workers EXCEPT ![g].pc = pc, ![g].released = @ + 1]

\* the RUnlock inside the if, then the type assertion on entry.Data: the call returns
\* the cached value when the type is its own
HitUnlock(g) ==
    /\ alive /\ workers[g].pc = "hit"
    /\ runlock(g, IF pass[workers[g].url].kind = DataOf(workers[g].op)
                  THEN "idle" ELSE "unlock")
    /\ UNCHANGED <<pass, lockRest>>

\* the RUnlock after the if
MissUnlock(g) ==
    /\ alive /\ workers[g].pc = "unlock"
    /\ runlock(g, "fetch")
    /\ UNCHANGED <<pass, lockRest>>

\* the request: refused or failed, the call returns the error; answered, it goes on
Fetch(g, ok) ==
    /\ alive /\ workers[g].pc = "fetch"
    /\ workers' = [workers EXCEPT ![g].pc = IF ok THEN "store" ELSE "idle"]
    /\ UNCHANGED <<pass, last, alive, lockRest>>

\* cacheMutex.Lock, the entry of this function stored, Unlock, return
Store(g) ==
    /\ alive /\ workers[g].pc = "store"
    /\ last.readers = 0
    /\ pass' = [pass EXCEPT ![workers[g].url] =
                  [kind |-> DataOf(workers[g].op), fresh |-> TRUE]]
    /\ workers' = [workers EXCEPT ![g].pc = "idle"]
    /\ UNCHANGED <<last, alive, lockRest>>

\* ten minutes pass since an entry was stored
Expire(url) ==
    /\ alive /\ pass[url].fresh
    /\ pass' = [pass EXCEPT ![url].fresh = FALSE]
    /\ UNCHANGED <<workers, last, alive, lockRest>>

LockNext ==
    \/ \E g \in Goroutines :
         \/ \E op \in CacheOps, url \in LockURLs : CallCache(g, op, url)
         \/ RLock(g)
         \/ Lookup(g)
         \/ HitUnlock(g)
         \/ MissUnlock(g)
         \/ \E ok \in BOOLEAN : Fetch(g, ok)
         \/ Store(g)
    \/ \E url \in LockURLs : Expire(url)

SpecLock == LockInit /\ [][LockNext]_vars

\* goroutine g is past its call or has not started one
Returned(g) == workers[g].pc = "idle"

\* the calls of g have released the read lock as often as they acquired it
Balanced(g) ==
    /\ workers[g].released <= workers[g].acquired
    /\ Returned(g) => workers[g].released = workers[g].acquired

\* C29: every path through get and getWithPagination releases the cache read lock
\* once for each time it acquired it, also when the URL has an unexpired entry that the
\* other of the two functions stored.
C29_ReadLockBalanced == alive /\ \A g \in Goroutines : Balanced(g)

\* as long as no call has met an unexpired entry of the other function, every call
\* releases the read lock once per acquisition and the lock counts its readers
C29_BalancedOnOwnEntries ==
    ~last.crossed =>
        /\ alive
        /\ \A g \in Goroutines : Balanced(g)
        /\ last.readers = Cardinality({g \in Goroutines : workers[g].pc \in {"lookup", "hit", "unlock"}
                                                         /\ workers[g].released = 0})

\* a call that met an unexpired entry of the other function releases the lock twice:
\* the process stops with the fatal error, or the lock of another reader is released
C29_SecondRelease ==
    \A g \in Goroutines :
        workers[g].released > workers[g].acquired =>
            /\ last.crossed
            /\ workers[g].released = 2 /\ workers[g].acquired = 1

\* ---------------------------------------------------------------------------
\* A status poll beside the completion of a job (server.go: jobsMutex)
\* ---------------------------------------------------------------------------

RunningJob == [status |-> "running", error |-> "", completedAt |-> FALSE, progress |-> FALSE]

NoPoll == [pc |-> "idle", status |-> "", error |-> "", completedAt |-> FALSE,
           progress |-> FALSE]

\* jobs holds the one job startSyncJob has registered; workers.job is the goroutine of
\* the job, workers.poll the request loop inside handleSyncStatus with the fields it has
\* read so far; last is jobsMutex; reply is the answer of the last poll
PollInit ==
    /\ db = EmptyDB /\ marker = [r \in Syncable |-> 1] /\ pass = NoPass
    /\ progress = NoProgress /\ faults = 0 /\ alive = TRUE
    /\ lastPass = [kind |-> "none", result |-> "", discovered |-> FALSE, failed |-> {},
                   unavailable |-> {}]
    /\ jobs = <<RunningJob>>
    /\ workers = [job |-> [pc |-> "run", failed |-> FALSE], poll |-> NoPoll]
    /\ last = [writer |-> FALSE, readers |-> 0]
    /\ reply = NoPoll

pollRest == <<db, marker, pass, progress, alive, lastPass, faults>>

\* the runner returns, with an error or with its progress; s.jobsMutex.Lock()
CompleteLock(failed) ==
    /\ workers.job.pc = "run"
    /\ ~last.writer /\ last.readers = 0
    /\ last' = [last EXCEPT !.writer = TRUE]
    /\ workers' = [workers EXCEPT !.job = [pc |-> "status", failed |-> failed]]
    /\ UNCHANGED <<jobs, reply, pollRest>>

\* job.Status = "failed" or "completed"
WriteStatus ==
    /\ workers.job.pc = "status"
    /\ jobs' = [jobs EXCEPT ![1].status =
                  IF workers.job.failed THEN "failed" ELSE "completed"]
    /\ workers' = [workers EXCEPT !.job.pc = "detail"]
    /\ UNCHANGED <<last, reply, pollRest>>

\* job.Error = errMsg, or job.Progress = progress
WriteDetail ==
    /\ workers.job.pc = "detail"
    /\ jobs' = [jobs EXCEPT ![1].error = IF workers.job.failed THEN "error" ELSE @,
                            ![1].progress = ~workers.job.failed]
    /\ workers' = [workers EXCEPT !.job.pc = "completedAt"]
    /\ UNCHANGED <<last, reply, pollRest>>

\* job.CompletedAt = &now
WriteCompletedAt ==
    /\ workers.job.pc = "completedAt"
    /\ jobs' = [jobs EXCEPT ![1].completedAt = TRUE]
    /\ workers' = [workers EXCEPT !.job.pc = "unlock"]
    /\ UNCHANGED <<last, reply, pollRest>>

\* s.jobsMutex.Unlock()
CompleteUnlock ==
    /\ workers.job.pc = "unlock"
    /\ last' = [last EXCEPT !.writer = FALSE]
    /\ workers' = [workers EXCEPT !.job.pc = "done"]
    /\ UNCHANGED <<jobs, reply, pollRest>>

\* a tools/call of sync_status with the id of the job: getJob takes the read lock
GetJobRLock ==
    /\ workers.poll.pc = "idle"
    /\ ~last.writer
    /\ last' = [last EXCEPT !.readers = @ + 1]
    /\ workers' = [workers EXCEPT !.poll = [NoPoll EXCEPT !.pc = "getJob"]]
    /\ UNCHANGED <<jobs, reply, pollRest>>

\* getJob returns the pointer found in the map and its deferred RUnlock runs
GetJobReturns ==
    /\ workers.poll.pc = "getJob"
    /\ last' = [last EXCEPT !.readers = @ - 1]
    /\ workers' = [workers EXCEPT !.poll.pc = "progress"]
    /\ UNCHANGED <<jobs, reply, pollRest>>

\* formatJobDetails reads job.Progress, then the arguments of formatter.JobDetails in
\* order: job.Status, job.CompletedAt, job.Error
ReadProgress ==
    /\ workers.poll.pc = "progress"
    /\ workers' = [workers EXCEPT !.poll.progress = jobs[1].progress,
                                  !.poll.pc = "status"]
    /\ UNCHANGED <<jobs, last, reply, pollRest>>

ReadStatus ==
    /\ workers.poll.pc = "status"
    /\ workers' = [workers EXCEPT !.poll.status = jobs[1].status,
                                  !.poll.pc = "completedAt"]
    /\ UNCHANGED <<jobs, last, reply, pollRest>>

ReadCompletedAt ==
    /\ workers.poll.pc = "completedAt"
    /\ workers' = [workers EXCEPT !.poll.completedAt = jobs[1].completedAt,
                                  !.poll.pc = "error"]
    /\ UNCHANGED <<jobs, last, reply, pollRest>>

ReadError ==
    /\ workers.poll.pc = "error"
    /\ workers' = [workers EXCEPT !.poll.error = jobs[1].error, !.poll.pc = "reply"]
    /\ UNCHANGED <<jobs, last, reply, pollRest>>

\* the text of the job is sent to the client
PollReply ==
    /\ workers.poll.pc = "reply"
    /\ reply' = [workers.poll EXCEPT !.pc = "answered"]
    /\ workers' = [workers EXCEPT !.poll = NoPoll]
    /\ UNCHANGED <<jobs, last, pollRest>>

PollNext ==
    \/ \E failed \in BOOLEAN : CompleteLock(failed)
    \/ WriteStatus
    \/ WriteDetail
    \/ WriteCompletedAt
    \/ CompleteUnlock
    \/ GetJobRLock
    \/ GetJobReturns
    \/ ReadProgress
    \/ ReadStatus
    \/ ReadCompletedAt
    \/ ReadError
    \/ PollReply

SpecPoll == PollInit /\ [][PollNext]_vars

\* what a poll has read of a job record
Seen(p) == [status |-> p.status, error |-> p.error, completedAt |-> p.completedAt,
            progress |-> p.progress]

\* the states of the job before its completion and after it
WholeStates ==
    {RunningJob,
     [status |-> "completed", error |-> "", completedAt |-> TRUE, progress |-> TRUE],
     [status |-> "failed", error |-> "error", completedAt |-> TRUE, progress |-> FALSE]}

\* C30: a status poll that runs beside the completion of a job observes the state of
\* the job before the completion or its whole state after it, never a status of
\* completed or failed without a completion time; the fields of a job are read only
\* while the lock of the job registry is held.
C30_PollAtomic ==
    /\ reply.pc = "answered" =>
          /\ Seen(reply) \in WholeStates
          /\ reply.status \in {"completed", "failed"} => reply.completedAt
    /\ workers.poll.pc \in {"progress", "status", "completedAt", "error"} =>
          last.readers > 0

\* the fields of a job are written only while the write lock is held, and outside the
\* completion the job is in a state before or after it
C30_WritesUnderLock ==
    /\ workers.job.pc \in {"status", "detail", "completedAt", "unlock"} <=> last.writer
    /\ last.writer => last.readers = 0
    /\ ~last.writer => jobs[1] \in WholeStates

\* the lookup of the job in the registry holds the read lock and never runs while the
\* completion holds the write lock; the fields are read after the read lock is released
C30_LookupUnderLock ==
    /\ workers.poll.pc = "getJob" <=> last.readers = 1
    /\ workers.poll.pc = "getJob" => ~last.writer
    /\ last.readers \in {0, 1}

\* a poll that reads every field outside the completion answers with a whole state
C30_TornOnlyBeside ==
    (reply.pc = "answered" /\ Seen(reply) \notin WholeStates) =>
        workers.job.pc # "run"

\* a poll has answered completed without a completion time
C30_TornAnswer ==
    reply.pc = "answered" /\ reply.status = "completed" /\ ~reply.completedAt


====
